---------------------------- MODULE Spec2Model ----------------------------
(***************************************************************************)
(* forager: session discovery, incremental indexing, ranked search and     *)
(* the last-search-results handle.                                         *)
(*                                                                         *)
(* Modelled sources: src/unnamed/part_001 (the indexer: scanAllSessions,   *)
(* scanHistoryFile, simpleHash, the extractors, the document builders and  *)
(* indexSessions), src/unnamed/part_000 (cosineSimilarity, searchSessions, *)
(* resolveSessionId), src/src/db.js (the sessions and meta tables) and     *)
(* src/src/embeddings.js (the embedder).                                   *)
(*                                                                         *)
(* Representation.  A JavaScript string that is hashed, compared by prefix *)
(* or parsed (session IDs, project paths, tokens, the JSON text of the     *)
(* handle) is a sequence of one-character strings.  A JavaScript value     *)
(* whose type matters is a record [t |-> type, ...].  Message texts are    *)
(* atoms: the 300-character truncation of the document builders is not     *)
(* modelled, and gitBranch, created and message_count, which the indexer   *)
(* only copies from the entry into the row, are left out.  ISO timestamps  *)
(* (created/modified) are kept as the millisecond number they print, which *)
(* orders the same way.                                                    *)
(***************************************************************************)
EXTENDS Integers, Sequences, FiniteSets, TLC

(***************************************************************************)
(* Program constants                                                       *)
(***************************************************************************)
SESSION_GAP_MS == 1800000

DefaultLimit == 5

MaxOrdinal == 20

MAX_USER_MESSAGES == 8

(***************************************************************************)
(* Characters and strings                                                  *)
(***************************************************************************)
Digits == <<"0","1","2","3","4","5","6","7","8","9">>

Base36Digits == Digits \o <<"a","b","c","d","e","f","g","h","i","j","k","l","m",
                            "n","o","p","q","r","s","t","u","v","w","x","y","z">>

\* String.prototype.charCodeAt for the characters project paths are made of
CharCode(c) ==
  CASE c = "/" -> 47
    [] c = "p" -> 112
    [] c = "q" -> 113
    [] OTHER -> 63

RECURSIVE ToStringRadix(_, _)
\* Number.prototype.toString(radix) of a non-negative integer
ToStringRadix(n, radix) ==
  IF n < radix THEN <<Base36Digits[n + 1]>>
  ELSE ToStringRadix(n \div radix, radix) \o <<Base36Digits[(n % radix) + 1]>>

\* String(n) / template-literal conversion of an integer
NumToString(n) ==
  IF n < 0 THEN <<"-">> \o ToStringRadix(0 - n, 10) ELSE ToStringRadix(n, 10)

IsPrefix(p, s) == Len(p) <= Len(s) /\ SubSeq(s, 1, Len(p)) = p

\* hash = ((hash << 5) - hash) + code; hash |= 0   -- 32-bit wrap, computed
\* on 16-bit halves so that no intermediate value leaves the 32-bit range
HashStep(hash, code) ==
  LET hiS   == hash \div 65536
      lo    == hash % 65536
      t     == 31 * lo + code
      lo2   == t % 65536
      hi2   == (31 * hiS + (t \div 65536)) % 65536
      hi2S  == IF hi2 >= 32768 THEN hi2 - 65536 ELSE hi2
  IN  hi2S * 65536 + lo2

RECURSIVE HashFrom(_, _, _)
HashFrom(hash, str, i) ==
  IF i > Len(str) THEN hash
  ELSE HashFrom(HashStep(hash, CharCode(str[i])), str, i + 1)

\* Math.abs(hash).toString(36); abs(-2^31) = 2^31 prints as "zik0zk"
simpleHash(str) ==
  LET hash == HashFrom(0, str, 1)
  IN  IF hash = (0 - 2147483647) - 1 THEN <<"z","i","k","0","z","k">>
      ELSE ToStringRadix(IF hash < 0 THEN 0 - hash ELSE hash, 36)

(***************************************************************************)
(* JavaScript values: [t |-> type, s |-> text atom, v |-> characters]      *)
(***************************************************************************)
Undef == [t |-> "undef", s |-> "", v |-> <<>>]

\* a message text, kept as an atom
TStr(s) == [t |-> "str", s |-> s, v |-> <<>>]

\* a string kept character by character (a path, an ID)
PStr(v) == [t |-> "str", s |-> "", v |-> v]

\* a non-zero number where a string is expected
TNum(s) == [t |-> "num", s |-> s, v |-> <<>>]

\* a non-empty array where a string is expected
TArray == [t |-> "array", s |-> "", v |-> <<>>]

\* a plain object where a string is expected
TObj == [t |-> "obj", s |-> "", v |-> <<>>]

EmptyStr == PStr(<<>>)

\* truthiness: everything but undefined and the empty string
Truthy(x) == x.t # "undef" /\ ~(x.t = "str" /\ x.s = "" /\ x.v = <<>>)

\* a || b
OrElse(a, b) == IF Truthy(a) THEN a ELSE b

\* a === b; two arrays or objects parsed from two places are two objects
StrictEq(a, b) == a.t = b.t /\ a.t \in {"str", "num", "undef"} /\ a = b

\* what better-sqlite3 binds: numbers, strings, bigints, buffers and null
Bindable(x) == x.t \in {"str", "num"}

(***************************************************************************)
(* scanHistoryFile                                                         *)
(***************************************************************************)
HistoryPrefix == <<"h","i","s","t","o","r","y","-">>

\* `history-${firstTs}-${simpleHash(project)}`
SyntheticId(firstTs, project) ==
  HistoryPrefix \o NumToString(firstTs) \o <<"-">> \o simpleHash(project)

\* lines 104-111: keep the lines that parse and have display and timestamp
RECURSIVE ParseHistory(_)
ParseHistory(lines) ==
  IF lines = <<>> THEN <<>>
  ELSE LET l == Head(lines)
       IN  (IF l.ok /\ Truthy(l.display) /\ l.timestamp # 0 THEN <<l>> ELSE <<>>)
           \o ParseHistory(Tail(lines))

RECURSIVE InsertByTs(_, _)
InsertByTs(sorted, e) ==
  IF sorted = <<>> THEN <<e>>
  ELSE IF Head(sorted).timestamp <= e.timestamp
       THEN <<Head(sorted)>> \o InsertByTs(Tail(sorted), e)
       ELSE <<e>> \o sorted

RECURSIVE SortByTimestamp(_)
\* line 114: entries.sort((a, b) => a.timestamp - b.timestamp), a stable sort
SortByTimestamp(es) ==
  IF es = <<>> THEN <<>>
  ELSE InsertByTs(SortByTimestamp(SubSeq(es, 1, Len(es) - 1)), es[Len(es)])

NewGroup(e) ==
  [project |-> OrElse(e.project, EmptyStr),
   firstTs |-> e.timestamp, lastTs |-> e.timestamp, prompts |-> <<e.display>>]

JoinsGroupMutant(cur, e) ==
  (e.timestamp - cur.lastTs) < SESSION_GAP_MS

\* line 121: same project and within SESSION_GAP_MS of the group's last record
JoinsGroup(cur, e) ==
  StrictEq(e.project, cur.project)
    /\ (e.timestamp - cur.lastTs) < SESSION_GAP_MS

RECURSIVE GroupFrom(_, _, _)
\* lines 117-134; done: closed groups, cur: <<>> or <<current>>
GroupFrom(es, done, cur) ==
  IF es = <<>> THEN done \o cur
  ELSE LET e == Head(es)
       IN  IF cur # <<>> /\ JoinsGroup(cur[1], e)
           THEN GroupFrom(Tail(es), done,
                  <<[cur[1] EXCEPT !.prompts = Append(@, e.display),
                                   !.lastTs = e.timestamp]>>)
           ELSE GroupFrom(Tail(es), done \o cur, <<NewGroup(e)>>)

GroupHistory(lines) == GroupFrom(SortByTimestamp(ParseHistory(lines)), <<>>, <<>>)

(***************************************************************************)
(* Candidate entries                                                       *)
(***************************************************************************)
NoPath == [dir |-> <<>>, file |-> <<>>]

\* a candidate entry; a field the source leaves undefined is Undef / 0 / NoPath
Entry(id, source) ==
  [sessionId |-> id, source |-> source, fullPath |-> NoPath,
   projectDirName |-> <<>>, fileMtime |-> 0, projectPath |-> Undef,
   summary |-> Undef, firstPrompt |-> Undef, modified |-> 0, prompts |-> <<>>]

\* lines 146-157: the entry of one history group
HistoryEntry(g) ==
  [Entry(SyntheticId(g.firstTs, g.project.v), "history") EXCEPT
     !.projectPath = g.project,
     !.firstPrompt = OrElse(g.prompts[1], EmptyStr),
     !.summary = EmptyStr,
     !.modified = g.lastTs,
     !.prompts = g.prompts]

\* line 140: simpleHash(s.project) calls str.charCodeAt when str.length > 0;
\* an array has a length and no charCodeAt
SimpleHashThrows(project) == project.t = "array"

RECURSIVE HistoryEntriesFrom(_, _)
\* lines 137-160 over the groups; the set seen is only read, never extended
HistoryEntriesFrom(groups, seen) ==
  IF groups = <<>> THEN [threw |-> FALSE, entries |-> <<>>]
  ELSE LET g == Head(groups)
       IN  IF SimpleHashThrows(g.project) THEN [threw |-> TRUE, entries |-> <<>>]
           ELSE LET rest == HistoryEntriesFrom(Tail(groups), seen)
                    e    == HistoryEntry(g)
                IN  IF e.sessionId \in seen THEN rest
                    ELSE [rest EXCEPT !.entries = <<e>> \o @]

\* scanHistoryFile(seenSessionIds): the entries, or threw when an exception
\* leaves the function
scanHistoryFile(history, seen) ==
  IF ~history.exists \/ ~history.readable THEN [threw |-> FALSE, entries |-> <<>>]
  ELSE HistoryEntriesFrom(GroupHistory(history.lines), seen)

(***************************************************************************)
(* scanAllSessions                                                         *)
(***************************************************************************)
RECURSIVE MapSet(_, _)
\* indexed.set(entry.sessionId, entry) for each entry: a Map keeps the
\* position of the first insertion of a key and the value of the last
MapSet(map, es) ==
  IF es = <<>> THEN map
  ELSE LET e == Head(es)
           at == {i \in 1..Len(map) : map[i].sessionId = e.sessionId}
       IN  MapSet(IF at = {} THEN Append(map, e)
                  ELSE [map EXCEPT ![CHOOSE i \in at : TRUE] = e],
                  Tail(es))

RECURSIVE IndexedOf(_, _)
\* lines 28-43 over the project directories
IndexedOf(dirs, map) ==
  IF dirs = <<>> THEN map
  ELSE IndexedOf(Tail(dirs),
         IF Head(dirs).index.state = "ok" THEN MapSet(map, Head(dirs).index.entries)
         ELSE map)

RECURSIVE AllJsonlFiles(_)
\* lines 45-56: {path, projectDirName} of every .jsonl file, in directory order
AllJsonlFiles(dirs) ==
  IF dirs = <<>> THEN <<>>
  ELSE [i \in 1..Len(Head(dirs).files) |->
          [path |-> [dir |-> Head(dirs).name, file |-> Head(dirs).files[i].name],
           projectDirName |-> Head(dirs).name]]
       \o AllJsonlFiles(Tail(dirs))

OrphansFromMutant(files, seen) ==
  [i \in 1..Len(files) |->
     [Entry(files[i].path.file, "orphan") EXCEPT
        !.fullPath = files[i].path, !.projectDirName = files[i].projectDirName]]

RECURSIVE OrphansFrom(_, _)
\* lines 70-81
OrphansFrom(files, seen) ==
  IF files = <<>> THEN <<>>
  ELSE LET f == Head(files)
       IN  IF f.path.file \in seen THEN OrphansFrom(Tail(files), seen)
           ELSE <<[Entry(f.path.file, "orphan") EXCEPT
                     !.fullPath = f.path, !.projectDirName = f.projectDirName]>>
                \o OrphansFrom(Tail(files), seen \cup {f.path.file})

IdsOf(es) == {es[i].sessionId : i \in 1..Len(es)}

\* scanAllSessions(): [threw, entries]
scanAllSessions(fs) ==
  LET indexed == IndexedOf(fs.dirs, <<>>)
      fromIdx == [i \in 1..Len(indexed) |-> [indexed[i] EXCEPT !.source = "index"]]
      orphans == OrphansFrom(AllJsonlFiles(fs.dirs), IdsOf(fromIdx))
      hist    == scanHistoryFile(fs.history, IdsOf(fromIdx) \cup IdsOf(orphans))
  IN  IF hist.threw THEN [threw |-> TRUE, entries |-> <<>>]
      ELSE [threw |-> FALSE, entries |-> fromIdx \o orphans \o hist.entries]

(***************************************************************************)
(* The file system the indexer reads                                       *)
(*   fs.dirs    : the project directories, in readdir order, each          *)
(*                [name, index : [state, entries], files]                  *)
(*   a file     : [name, mtime, readable, users], users being the records  *)
(*                of type user with a message content, in file order:      *)
(*                [sid, cwd, content, timestamp]                           *)
(*   fs.history : [exists, readable, mtime, lines], a line being           *)
(*                [ok, display, timestamp, project]                        *)
(***************************************************************************)
RECURSIVE FilesAt(_, _)
\* the file a path names: <<file>>, or <<>> when there is none
FilesAt(dirs, path) ==
  IF dirs = <<>> THEN <<>>
  ELSE (IF Head(dirs).name = path.dir
        THEN SelectSeq(Head(dirs).files, LAMBDA f : f.name = path.file)
        ELSE <<>>)
       \o FilesAt(Tail(dirs), path)

existsSync(fs, path) == path # NoPath /\ FilesAt(fs.dirs, path) # <<>>

\* try { statSync(path).mtimeMs } catch { 0 }
StatMtime(fs, path) ==
  IF existsSync(fs, path) THEN FilesAt(fs.dirs, path)[1].mtime ELSE 0

FileMtimeMutant(fs, entry, now) == now

\* lines 318-327: the fingerprint of an entry's backing source
FileMtime(fs, entry, now) ==
  IF entry.source = "history"
  THEN (IF fs.history.exists THEN fs.history.mtime ELSE 0)
  ELSE IF entry.fileMtime # 0 THEN entry.fileMtime
       ELSE StatMtime(fs, entry.fullPath)

RECURSIVE FirstTruthy(_)
FirstTruthy(vals) ==
  IF vals = <<>> THEN Undef
  ELSE IF Truthy(Head(vals)) THEN Head(vals) ELSE FirstTruthy(Tail(vals))

\* extractMetadataFromJsonl: kind is "null" (no file), "throw" (the read
\* stream fails) or "meta"
extractMetadataFromJsonl(fs, path) ==
  LET none == [kind |-> "null", sessionId |-> Undef, projectPath |-> Undef,
               firstPrompt |-> Undef, modified |-> 0]
  IN  IF ~existsSync(fs, path) THEN none
      ELSE LET f == FilesAt(fs.dirs, path)[1]
               u == f.users
           IN  IF ~f.readable THEN [none EXCEPT !.kind = "throw"]
               ELSE [kind |-> "meta",
                     sessionId |-> FirstTruthy([i \in 1..Len(u) |-> PStr(u[i].sid)]),
                     projectPath |-> FirstTruthy([i \in 1..Len(u) |-> u[i].cwd]),
                     firstPrompt |-> IF u = <<>> THEN Undef ELSE u[1].content,
                     modified |-> IF u = <<>> THEN 0 ELSE u[Len(u)].timestamp]

\* extractUserMessages: [threw, messages]
extractUserMessages(fs, path) ==
  IF ~existsSync(fs, path) THEN [threw |-> FALSE, messages |-> <<>>]
  ELSE LET f == FilesAt(fs.dirs, path)[1]
           n == IF Len(f.users) < MAX_USER_MESSAGES THEN Len(f.users)
                ELSE MAX_USER_MESSAGES
       IN  IF ~f.readable THEN [threw |-> TRUE, messages |-> <<>>]
           ELSE [threw |-> FALSE, messages |-> [i \in 1..n |-> f.users[i].content]]

\* dirName.replace(/^-/, '/').replace(/-/g, '/')
projectDirToPath(dirName) ==
  [i \in 1..Len(dirName) |-> IF dirName[i] = "-" THEN "/" ELSE dirName[i]]

(***************************************************************************)
(* Document builders: the text is kept as its parts, one per line          *)
(***************************************************************************)
Part(k, vals) == [k |-> k, v |-> vals]

buildDocument(entry, userMessages) ==
  (IF Truthy(entry.projectPath) THEN <<Part("Project", <<entry.projectPath>>)>> ELSE <<>>)
  \o (IF Truthy(entry.summary) THEN <<Part("Summary", <<entry.summary>>)>> ELSE <<>>)
  \o (IF Truthy(entry.firstPrompt) THEN <<Part("First prompt", <<entry.firstPrompt>>)>> ELSE <<>>)
  \o (IF userMessages # <<>> THEN <<Part("Key messages", userMessages)>> ELSE <<>>)

buildHistoryDocument(entry) ==
  (IF Truthy(entry.projectPath) THEN <<Part("Project", <<entry.projectPath>>)>> ELSE <<>>)
  \o (IF Truthy(entry.firstPrompt) THEN <<Part("First prompt", <<entry.firstPrompt>>)>> ELSE <<>>)
  \o (IF entry.prompts # <<>> THEN <<Part("Prompts", entry.prompts)>> ELSE <<>>)

(***************************************************************************)
(* Embedding adapter.  The model behind embed is an external library; it   *)
(* is a fixed function of the text, which either yields a vector (kept as  *)
(* a small integer direction) or throws.                                   *)
(***************************************************************************)
AtomsOf(text) ==
  UNION {{text[i].v[j].s : j \in 1..Len(text[i].v)} : i \in 1..Len(text)} \ {""}

\* embed(text): [threw, vec]
embed(text) ==
  LET atoms == AtomsOf(text)
  IN  IF "crash" \in atoms THEN [threw |-> TRUE, vec |-> <<>>]
      ELSE IF "fix bug" \in atoms THEN [threw |-> FALSE, vec |-> <<1, 0>>]
      ELSE IF "add test" \in atoms THEN [threw |-> FALSE, vec |-> <<0, 1>>]
      ELSE [threw |-> FALSE, vec |-> <<1, 1>>]

RECURSIVE embeddingToBuffer(_)
\* four bytes per component, little-endian (two's complement stands for the
\* IEEE 754 bits of the component)
embeddingToBuffer(vec) ==
  IF vec = <<>> THEN <<>>
  ELSE LET u == Head(vec) % 256
           f == IF Head(vec) < 0 THEN 255 ELSE 0
       IN  <<u, f, f, f>> \o embeddingToBuffer(Tail(vec))

\* new Float32Array(buf.buffer, buf.byteOffset, buf.byteLength / 4)
bufferToEmbedding(buf) ==
  [i \in 1..(Len(buf) \div 4) |->
     IF buf[4 * i] = 255 THEN buf[4 * i - 3] - 256 ELSE buf[4 * i - 3]]

(***************************************************************************)
(* db.js: the sessions table and the meta table, as rows in rowid order    *)
(***************************************************************************)
upsertSessionMutant(table, row) == Append(table, row)

upsertSessionRewrites(table, row) == <<row>>

\* INSERT OR REPLACE on the primary key session_id
upsertSession(table, row) ==
  Append(SelectSeq(table, LAMBDA r : r.session_id # row.session_id), row)

\* getSessionMtime: <<file_mtime>>, or <<>> for null
getSessionMtime(table, sessionId) ==
  LET rows == SelectSeq(table, LAMBDA r : r.session_id = sessionId)
  IN  IF rows = <<>> THEN <<>> ELSE <<rows[1].file_mtime>>

setMetaMutant(table, key, value) == Append(table, [key |-> key, value |-> value])

\* INSERT OR REPLACE on the primary key key
setMeta(table, key, value) ==
  Append(SelectSeq(table, LAMBDA r : r.key # key), [key |-> key, value |-> value])

\* getMeta: <<value>>, or <<>> for null
getMeta(table, key) ==
  LET rows == SelectSeq(table, LAMBDA r : r.key = key)
  IN  IF rows = <<>> THEN <<>> ELSE <<rows[1].value>>

(***************************************************************************)
(* indexSessions: one iteration of the loop over allEntries                *)
(***************************************************************************)
Event(type, sessionId, total) == [type |-> type, sessionId |-> sessionId, total |-> total]

\* lines 354-364
EnrichedEntry(entry, meta) ==
  [entry EXCEPT
     !.sessionId = IF Truthy(meta.sessionId) THEN meta.sessionId.v ELSE entry.sessionId,
     !.projectPath = OrElse(meta.projectPath, PStr(projectDirToPath(entry.projectDirName))),
     !.firstPrompt = meta.firstPrompt,
     !.summary = EmptyStr,
     !.modified = meta.modified]

\* lines 376-389
RowOf(e, document, vec, fileMtime, now) ==
  [session_id |-> e.sessionId,
   project_path |-> OrElse(e.projectPath, EmptyStr),
   summary |-> OrElse(e.summary, EmptyStr),
   first_prompt |-> OrElse(e.firstPrompt, EmptyStr),
   document |-> document,
   embedding |-> [null |-> FALSE, bytes |-> embeddingToBuffer(vec)],
   modified |-> e.modified,
   file_mtime |-> fileMtime,
   indexed_at |-> now]

\* stmt.run(session) throws a TypeError on a value it cannot bind
UpsertThrows(row) ==
  ~Bindable(row.project_path) \/ ~Bindable(row.summary) \/ ~Bindable(row.first_prompt)

\* line 392: (enrichedEntry.firstPrompt || 'untitled').slice(0, 60) is only
\* evaluated without a summary; a number has no slice
LabelThrows(e) == ~Truthy(e.summary) /\ Truthy(e.firstPrompt) /\ e.firstPrompt.t # "str"

OutcomeMutant(type, cause, sessionId, table, embedCalled) ==
  [type |-> type, cause |-> cause, sessionId |-> sessionId, table |-> table,
   embedCalled |-> embedCalled,
   indexed |-> IF type = "indexed" \/ cause = "label" THEN 1 ELSE 0,
   skipped |-> IF type = "skip" THEN 1 ELSE 0,
   errors |-> 0]

\* what one iteration leaves: the event type, the table and the counters
Outcome(type, cause, sessionId, table, embedCalled) ==
  [type |-> type, cause |-> cause, sessionId |-> sessionId, table |-> table,
   embedCalled |-> embedCalled,
   indexed |-> IF type = "indexed" \/ cause = "label" THEN 1 ELSE 0,
   skipped |-> IF type = "skip" THEN 1 ELSE 0,
   errors |-> IF type = "error" THEN 1 ELSE 0]

EmbedAndStoreMutant(table, entry, e, document, fileMtime, now) ==
  LET emb == embed(document)
      row == RowOf(e, document, emb.vec, fileMtime, now)
  IN  IF emb.threw THEN Outcome("error", "embed", entry.sessionId, table, TRUE)
      ELSE IF UpsertThrows(row) THEN Outcome("error", "write", entry.sessionId, table, TRUE)
      ELSE Outcome("indexed", "", e.sessionId, table, TRUE)

\* lines 372-397, from the embedding on
EmbedAndStore(table, entry, e, document, fileMtime, now) ==
  LET emb == embed(document)
      row == RowOf(e, document, emb.vec, fileMtime, now)
  IN  IF emb.threw THEN Outcome("error", "embed", entry.sessionId, table, TRUE)
      ELSE IF UpsertThrows(row) THEN Outcome("error", "write", entry.sessionId, table, TRUE)
      ELSE IF LabelThrows(e)
           THEN Outcome("error", "label", entry.sessionId, upsertSession(table, row), TRUE)
      ELSE Outcome("indexed", "", e.sessionId, upsertSession(table, row), TRUE)

ProcessTranscriptMutant(fs, table, entry, fileMtime, now) ==
  LET meta == extractMetadataFromJsonl(fs, entry.fullPath)
      e    == IF entry.source = "orphan" THEN EnrichedEntry(entry, meta) ELSE entry
      msgs == extractUserMessages(fs, e.fullPath)
  IN  IF entry.source = "orphan" /\ meta.kind = "throw"
      THEN Outcome("error", "metadata", entry.sessionId, table, FALSE)
      ELSE IF msgs.threw THEN Outcome("error", "document", entry.sessionId, table, FALSE)
      ELSE EmbedAndStore(table, entry, e, buildDocument(e, msgs.messages), fileMtime, now)

\* lines 339-370, for an index or orphan entry
ProcessTranscript(fs, table, entry, fileMtime, now) ==
  LET meta == extractMetadataFromJsonl(fs, entry.fullPath)
      e    == IF entry.source = "orphan" THEN EnrichedEntry(entry, meta) ELSE entry
      msgs == extractUserMessages(fs, e.fullPath)
  IN  IF entry.source = "orphan" /\ meta.kind = "throw"
      THEN Outcome("error", "metadata", entry.sessionId, table, FALSE)
      ELSE IF entry.source = "orphan" /\ (meta.kind = "null" \/ ~Truthy(meta.firstPrompt))
      THEN Outcome("skip", "empty", entry.sessionId, table, FALSE)
      ELSE IF msgs.threw THEN Outcome("error", "document", entry.sessionId, table, FALSE)
      ELSE EmbedAndStore(table, entry, e, buildDocument(e, msgs.messages), fileMtime, now)

UnchangedMutant(table, entry, fileMtime) == FALSE

\* lines 331-332: the stored fingerprint exists and is identical
Unchanged(table, entry, fileMtime) ==
  LET existingMtime == getSessionMtime(table, entry.sessionId)
  IN  existingMtime # <<>> /\ existingMtime[1] = fileMtime

ProcessEntryMutant(fs, table, entry, full, now) ==
  LET fileMtime == FileMtime(fs, entry, now)
  IN  IF Unchanged(table, entry, fileMtime)
      THEN Outcome("skip", "unchanged", entry.sessionId, table, FALSE)
      ELSE IF entry.source = "history"
      THEN EmbedAndStore(table, entry, entry, buildHistoryDocument(entry), fileMtime, now)
      ELSE ProcessTranscript(fs, table, entry, fileMtime, now)

\* lines 317-397: the body of the loop for one entry
ProcessEntry(fs, table, entry, full, now) ==
  LET fileMtime == FileMtime(fs, entry, now)
  IN  IF ~full /\ Unchanged(table, entry, fileMtime)
      THEN Outcome("skip", "unchanged", entry.sessionId, table, FALSE)
      ELSE IF entry.source = "history"
      THEN EmbedAndStore(table, entry, entry, buildHistoryDocument(entry), fileMtime, now)
      ELSE ProcessTranscript(fs, table, entry, fileMtime, now)

(***************************************************************************)
(* search.js: cosineSimilarity and searchSessions                          *)
(***************************************************************************)
Min(a, b) == IF a < b THEN a ELSE b

RECURSIVE SumTo(_, _)
SumTo(f, n) == IF n = 0 THEN 0 ELSE f[n] + SumTo(f, n - 1)

\* the score dot / (sqrt(normA) * sqrt(normB)) before any rounding, as the
\* pair [num |-> dot, den2 |-> normA * normB]; a zero denominator gives the
\* score 0.  The ranking compares these exact scores: the doubles that
\* cosineSimilarity returns for the vectors embed yields order the same way
\* (DoublesRankAsExact)
ExactCosine(a, b) ==
  LET len   == Min(Len(a), Len(b))
      dot   == SumTo([i \in 1..len |-> a[i] * b[i]], len)
      normA == SumTo([i \in 1..len |-> a[i] * a[i]], len)
      normB == SumTo([i \in 1..len |-> b[i] * b[i]], len)
  IN  IF normA * normB = 0 THEN [num |-> 0, den2 |-> 1]
      ELSE [num |-> dot, den2 |-> normA * normB]

\* sign(x) * x^2 * d: compares num / sqrt(den2) of two scores without roots
SignedSq(x, d) == IF x < 0 THEN 0 - (x * x * d) ELSE x * x * d

\* x.score < y.score
ScoreLess(x, y) == SignedSq(x.num, y.den2) < SignedSq(y.num, x.den2)

(***************************************************************************)
(* IEEE 754 binary64 arithmetic on the values cosineSimilarity computes.   *)
(* A natural number of any size is a sequence of limbs below Limb, least   *)
(* significant first, without leading zero limbs.  A double is             *)
(* [sign, m, e], the number sign * m * 2^e with 2^52 <= m < 2^53, or       *)
(* DoubleZero.  The sums dot, normA and normB of the model's vectors are   *)
(* small integers, which doubles hold exactly; Math.sqrt, * and / round to *)
(* the nearest double, ties to the even mantissa.  No value here is near   *)
(* the overflow or the subnormal range.                                    *)
(***************************************************************************)
LimbBits == 13

Limb == 8192

MantissaBits == 53

DigitBits == 8

\* 2^(DigitBits * (TopDigit + 1)) = 2^56 exceeds every mantissa, rounded up
\* or not
TopDigit == 6

RECURSIVE Pow2(_)
Pow2(n) == IF n = 0 THEN 1 ELSE 2 * Pow2(n - 1)

RECURSIVE BitLength(_)
BitLength(n) == IF n = 0 THEN 0 ELSE 1 + BitLength(n \div 2)

RECURSIVE BigOfInt(_)
BigOfInt(n) == IF n = 0 THEN <<>> ELSE <<n % Limb>> \o BigOfInt(n \div Limb)

RECURSIVE BigTrim(_)
BigTrim(x) ==
  IF x = <<>> THEN <<>>
  ELSE IF x[Len(x)] = 0 THEN BigTrim(SubSeq(x, 1, Len(x) - 1))
  ELSE x

RECURSIVE BigAddCarry(_, _, _)
BigAddCarry(x, y, c) ==
  IF x = <<>> /\ y = <<>> THEN (IF c = 0 THEN <<>> ELSE <<c>>)
  ELSE LET s == (IF x = <<>> THEN 0 ELSE Head(x)) + (IF y = <<>> THEN 0 ELSE Head(y)) + c
       IN  <<s % Limb>> \o BigAddCarry(IF x = <<>> THEN <<>> ELSE Tail(x),
                                       IF y = <<>> THEN <<>> ELSE Tail(y),
                                       s \div Limb)

BigAdd(x, y) == BigAddCarry(x, y, 0)

RECURSIVE BigTimesLimb(_, _, _)
BigTimesLimb(x, d, c) ==
  IF x = <<>> THEN (IF c = 0 THEN <<>> ELSE <<c>>)
  ELSE LET p == Head(x) * d + c
       IN  <<p % Limb>> \o BigTimesLimb(Tail(x), d, p \div Limb)

RECURSIVE BigTimes(_, _)
BigTimes(x, y) ==
  IF y = <<>> THEN <<>>
  ELSE LET high == BigTimes(x, Tail(y))
       IN  IF high = <<>> THEN BigTimesLimb(x, Head(y), 0)
           ELSE BigAdd(BigTimesLimb(x, Head(y), 0), <<0>> \o high)

BigMul(x, y) == BigTrim(BigTimes(x, y))

RECURSIVE BigLess(_, _)
BigLess(x, y) ==
  IF Len(x) # Len(y) THEN Len(x) < Len(y)
  ELSE IF x = <<>> THEN FALSE
  ELSE IF x[Len(x)] # y[Len(y)] THEN x[Len(x)] < y[Len(y)]
  ELSE BigLess(SubSeq(x, 1, Len(x) - 1), SubSeq(y, 1, Len(y) - 1))

BigPow2(i) == [j \in 1..(i \div LimbBits) |-> 0] \o <<Pow2(i % LimbBits)>>

BigIsOdd(x) == x # <<>> /\ x[1] % 2 = 1

RECURSIVE BigDivFrom(_, _, _)
\* digits j and above of the greatest q below 2^56 with
\* q * den <= num, one digit of DigitBits bits at a time, found by
\* bisection (a leading zero digit is settled at once)
BigDivFrom(num, den, j) ==
  IF j > TopDigit THEN <<>>
  ELSE LET cur     == BigDivFrom(num, den, j + 1)
           With(d) == BigAdd(cur, BigMul(BigOfInt(d), BigPow2(DigitBits * j)))
           Fits(d) == ~BigLess(num, BigMul(With(d), den))
           RECURSIVE Greatest(_, _)
           Greatest(lo, hi) ==
             IF lo = hi THEN lo
             ELSE LET mid == (lo + hi + 1) \div 2
                  IN  IF Fits(mid) THEN Greatest(mid, hi) ELSE Greatest(lo, mid - 1)
           digit == Greatest(0, Pow2(DigitBits) - 1)
       IN  IF cur = <<>> /\ ~Fits(1) THEN <<>>
           ELSE IF digit = 0 THEN cur
           ELSE With(digit)

\* num / den rounded to the nearest integer, a tie to the even one
BigDivRound(num, den) ==
  LET q     == BigDivFrom(num, den, 0)
      twice == BigAdd(num, num)
      mid   == BigMul(BigAdd(BigAdd(q, q), <<1>>), den)
  IN  IF num = <<>> THEN <<>>
      ELSE IF BigLess(mid, twice) \/ (mid = twice /\ BigIsOdd(q)) THEN BigAdd(q, <<1>>)
      ELSE q

RECURSIVE BigSqrtFrom(_, _)
\* digits j and above of the greatest r below 2^56 with
\* r * r <= n
BigSqrtFrom(n, j) ==
  IF j > TopDigit THEN <<>>
  ELSE LET cur     == BigSqrtFrom(n, j + 1)
           With(d) == BigAdd(cur, BigMul(BigOfInt(d), BigPow2(DigitBits * j)))
           Fits(d) == ~BigLess(n, BigMul(With(d), With(d)))
           RECURSIVE Greatest(_, _)
           Greatest(lo, hi) ==
             IF lo = hi THEN lo
             ELSE LET mid == (lo + hi + 1) \div 2
                  IN  IF Fits(mid) THEN Greatest(mid, hi) ELSE Greatest(lo, mid - 1)
           digit == Greatest(0, Pow2(DigitBits) - 1)
       IN  IF cur = <<>> /\ ~Fits(1) THEN <<>>
           ELSE IF digit = 0 THEN cur
           ELSE With(digit)

\* sqrt(n) rounded to the nearest integer: r + 1 when n > (r + 1/2)^2, that
\* is when n > r^2 + r
BigSqrtRound(n) ==
  LET r == BigSqrtFrom(n, 0)
  IN  IF n = <<>> THEN <<>>
      ELSE IF BigLess(BigAdd(BigMul(r, r), r), n) THEN BigAdd(r, <<1>>)
      ELSE r

DoubleZero == [sign |-> 0, m |-> <<>>, e |-> 0]

DoubleOne == [sign |-> 1, m |-> BigPow2(MantissaBits - 1), e |-> 1 - MantissaBits]

\* a mantissa rounded up to 2^53 is 2^52 at the next exponent
Normal(sign, m, e) ==
  IF m = BigPow2(MantissaBits)
  THEN [sign |-> sign, m |-> BigPow2(MantissaBits - 1), e |-> e + 1]
  ELSE [sign |-> sign, m |-> m, e |-> e]

\* Math.sqrt(n) of an integer n >= 0: n * 4^k lies in [2^104, 2^106)
MathSqrt(n) ==
  IF n = 0 THEN DoubleZero
  ELSE LET k == (2 * MantissaBits - BitLength(n)) \div 2
       IN  Normal(1, BigSqrtRound(BigMul(BigOfInt(n), BigPow2(2 * k))), 0 - k)

\* x * y of two doubles: the product p of the mantissas has 105 or 106 bits,
\* of which the lowest 52 or 53 are rounded away
DoubleTimes(x, y) ==
  IF x.sign = 0 \/ y.sign = 0 THEN DoubleZero
  ELSE LET p         == BigMul(x.m, y.m)
           Keeping(s) == Normal(x.sign * y.sign, BigDivRound(p, BigPow2(s)), x.e + y.e + s)
       IN  IF BigLess(p, BigPow2(2 * MantissaBits - 1)) THEN Keeping(MantissaBits - 1)
           ELSE Keeping(MantissaBits)

\* n / y of an integer n and a double y # 0: t is such that |n| * 2^t / y.m
\* lies in [2^52, 2^53)
IntOverDouble(n, y) ==
  IF n = 0 THEN DoubleZero
  ELSE LET a         == BigOfInt(IF n < 0 THEN 0 - n ELSE n)
           t0        == 2 * MantissaBits - 1 - BitLength(IF n < 0 THEN 0 - n ELSE n)
           Scaled(t) == Normal((IF n < 0 THEN 0 - 1 ELSE 1) * y.sign,
                               BigDivRound(BigMul(a, BigPow2(t)), y.m), 0 - t - y.e)
       IN  IF BigLess(BigMul(a, BigPow2(t0)), BigMul(y.m, BigPow2(MantissaBits - 1)))
           THEN Scaled(t0 + 1)
           ELSE Scaled(t0)

\* x < y
DoubleLess(x, y) ==
  IF x.sign # y.sign THEN x.sign < y.sign
  ELSE IF x.sign = 0 THEN FALSE
  ELSE LET below == x.e < y.e \/ (x.e = y.e /\ BigLess(x.m, y.m))
           above == y.e < x.e \/ (x.e = y.e /\ BigLess(y.m, x.m))
       IN  IF x.sign = 1 THEN below ELSE above

\* lines 4-16: the value returned, as the double the code computes
cosineSimilarity(a, b) ==
  LET len   == Min(Len(a), Len(b))
      dot   == SumTo([i \in 1..len |-> a[i] * b[i]], len)
      normA == SumTo([i \in 1..len |-> a[i] * a[i]], len)
      normB == SumTo([i \in 1..len |-> b[i] * b[i]], len)
      denom == DoubleTimes(MathSqrt(normA), MathSqrt(normB))
  IN  IF denom = DoubleZero THEN DoubleZero ELSE IntOverDouble(dot, denom)

RECURSIVE InsertByScore(_, _)
InsertByScore(sorted, e) ==
  IF sorted = <<>> THEN <<e>>
  ELSE IF ~ScoreLess(Head(sorted).score, e.score)
       THEN <<Head(sorted)>> \o InsertByScore(Tail(sorted), e)
       ELSE <<e>> \o sorted

RECURSIVE SortByScoreDesc(_)
\* .sort((a, b) => b.score - a.score), a stable sort
SortByScoreDesc(es) ==
  IF es = <<>> THEN <<>>
  ELSE InsertByScore(SortByScoreDesc(SubSeq(es, 1, Len(es) - 1)), es[Len(es)])

\* Array.prototype.slice(0, limit) for an integer limit
Slice(seq, limit) ==
  LET end == IF limit < 0 THEN (IF Len(seq) + limit < 0 THEN 0 ELSE Len(seq) + limit)
             ELSE Min(limit, Len(seq))
  IN  SubSeq(seq, 1, end)

RECURSIVE OrdersDesc(_, _)
\* the orders of the row positions S in which modified never increases
OrdersDesc(table, S) ==
  IF S = {} THEN {<<>>}
  ELSE UNION {{<<x>> \o p : p \in OrdersDesc(table, S \ {x})} :
                x \in {y \in S : \A z \in S : table[y].modified >= table[z].modified}}

getAllSessionsMutant(table) == {table}

\* SELECT * FROM sessions ORDER BY modified DESC: the orders it may return,
\* rows with equal modified coming in an order SQL leaves open
getAllSessions(table) ==
  {[i \in 1..Len(p) |-> table[p[i]]] : p \in OrdersDesc(table, 1..Len(table))}

\* lines 22-30 for the rows in the order the store returned them
Scored(sessions, queryEmbedding, limit) ==
  LET withEmb == SelectSeq(sessions, LAMBDA r : ~r.embedding.null)
      scored  == [i \in 1..Len(withEmb) |->
                    [session_id |-> withEmb[i].session_id,
                     modified |-> withEmb[i].modified,
                     score |-> ExactCosine(queryEmbedding,
                                 bufferToEmbedding(withEmb[i].embedding.bytes))]]
  IN  Slice(SortByScoreDesc(scored), limit)

(***************************************************************************)
(* JSON text of an array of strings                                        *)
(***************************************************************************)
RECURSIVE JsonEscape(_)
JsonEscape(str) ==
  IF str = <<>> THEN <<>>
  ELSE (IF Head(str) \in {"\"", "\\"} THEN <<"\\", Head(str)>> ELSE <<Head(str)>>)
       \o JsonEscape(Tail(str))

RECURSIVE JsonJoin(_)
JsonJoin(strs) ==
  IF strs = <<>> THEN <<>>
  ELSE <<"\"">> \o JsonEscape(Head(strs)) \o <<"\"">>
       \o (IF Len(strs) > 1 THEN <<",">> ELSE <<>>) \o JsonJoin(Tail(strs))

\* JSON.stringify(resultIds)
JsonStringify(strs) == <<"[">> \o JsonJoin(strs) \o <<"]">>

\* the number of backslashes that end right before position i
BackslashesBefore(text, i) ==
  Cardinality({j \in 1..(i - 1) : \A m \in j..(i - 1) : text[m] = "\\"})

\* the character at position i is escaped by the backslash before it
Escaped(text, i) ==
  i > 1 /\ text[i - 1] = "\\" /\ BackslashesBefore(text, i) % 2 = 1

\* the k-th smallest element of a set of positions
Nth(S, k) == CHOOSE p \in S : Cardinality({q \in S : q < p}) = k - 1

\* the string between the quotes at positions s and e, escapes undone
JsonUnescape(text, s, e) ==
  LET keep == {j \in (s + 1)..(e - 1) : ~(text[j] = "\\" /\ ~Escaped(text, j))}
  IN  [k \in 1..Cardinality(keep) |-> text[Nth(keep, k)]]

\* JSON.parse of the text of an array of strings
JsonParse(text) ==
  LET quotes == {i \in 1..Len(text) : text[i] = "\"" /\ ~Escaped(text, i)}
  IN  [k \in 1..(Cardinality(quotes) \div 2) |->
         JsonUnescape(text, Nth(quotes, 2 * k - 1), Nth(quotes, 2 * k))]

(***************************************************************************)
(* search.js: resolveSessionId, and getSessionByPrefix of db.js            *)
(***************************************************************************)
IsDigit(c) == \E d \in 1..10 : Digits[d] = c

DigitVal(c) == (CHOOSE d \in 1..10 : Digits[d] = c) - 1

RECURSIVE ParseDigits(_, _, _, _)
\* the longest run of digits from position i: [nan, val]
ParseDigits(str, i, seen, acc) ==
  IF i <= Len(str) /\ IsDigit(str[i])
  THEN ParseDigits(str, i + 1, TRUE, 10 * acc + DigitVal(str[i]))
  ELSE [nan |-> ~seen, val |-> acc]

RECURSIVE SkipSpaces(_, _)
SkipSpaces(str, i) ==
  IF i <= Len(str) /\ str[i] = " " THEN SkipSpaces(str, i + 1) ELSE i

\* parseInt(str, 10): leading white space, an optional sign, then digits
parseInt(str) ==
  LET i == SkipSpaces(str, 1)
      signed == i <= Len(str) /\ str[i] \in {"+", "-"}
      r == ParseDigits(str, IF signed THEN i + 1 ELSE i, FALSE, 0)
  IN  IF signed /\ str[i] = "-" THEN [r EXCEPT !.val = 0 - @] ELSE r

\* line 42: a small number whose string form round-trips
IsOrdinal(idOrIndex) ==
  LET num == parseInt(idOrIndex)
  IN  ~num.nan /\ num.val >= 1 /\ num.val <= MaxOrdinal
        /\ idOrIndex = NumToString(num.val)

\* SQLite folds the case of ASCII letters in LIKE
Lower(c) == CASE c = "A" -> "a" [] c = "B" -> "b" [] OTHER -> c

RECURSIVE Like(_, _)
\* str LIKE pattern: % matches any run of characters, _ any one character
Like(pattern, str) ==
  IF pattern = <<>> THEN str = <<>>
  ELSE IF Head(pattern) = "%"
       THEN Like(Tail(pattern), str) \/ (str # <<>> /\ Like(pattern, Tail(str)))
       ELSE str # <<>>
            /\ (Head(pattern) = "_" \/ Lower(Head(pattern)) = Lower(Head(str)))
            /\ Like(Tail(pattern), Tail(str))

\* SELECT * FROM sessions WHERE session_id LIKE prefix || '%', .get(): the
\* rows one of which is returned (SQL leaves the order open); {} for none
getSessionByPrefix(table, prefix) ==
  {table[i] : i \in {j \in 1..Len(table) : Like(prefix \o <<"%">>, table[j].session_id)}}

HandleKey == "last_search_results"

resolveSessionIdMutant(metaTable, table, idOrIndex) ==
  LET found == getSessionByPrefix(table, idOrIndex)
      num == parseInt(idOrIndex).val
      lastResults == getMeta(metaTable, HandleKey)
  IN  IF IsOrdinal(idOrIndex) /\ lastResults # <<>>
         /\ num <= Len(JsonParse(lastResults[1]))
      THEN {<<JsonParse(lastResults[1])[num]>>}
      ELSE IF found = {} THEN {<<>>} ELSE {<<r.session_id>> : r \in found}

\* resolveSessionId: the set of values it may return, <<>> being null
resolveSessionId(metaTable, table, idOrIndex) ==
  IF IsOrdinal(idOrIndex)
  THEN LET num == parseInt(idOrIndex).val
           lastResults == getMeta(metaTable, HandleKey)
       IN  IF lastResults # <<>> /\ lastResults[1] # <<>>
              /\ num <= Len(JsonParse(lastResults[1]))
           THEN {<<JsonParse(lastResults[1])[num]>>}
           ELSE {<<>>}
  ELSE LET found == getSessionByPrefix(table, idOrIndex)
       IN  IF found = {} THEN {<<>>} ELSE {<<r.session_id>> : r \in found}

(***************************************************************************)
(* Bounds and the inputs the behaviours are drawn from                     *)
(***************************************************************************)
MaxRuns == 2

MaxEdits == 1

MaxLines == 3

\* embed calls made in one process
MaxCalls == 3

\* components of the vectors cosineSimilarity is applied to
MaxDim == 2

DirP == <<"-", "p">>

ProjP == PStr(<<"/", "p">>)

ProjQ == PStr(<<"/", "q">>)

IdA == <<"a">>

IdAB == <<"a", "b">>

Id2 == <<"2">>

User(sid, text, ts) ==
  [sid |-> sid, cwd |-> ProjP, content |-> TStr(text), timestamp |-> ts]

File(name, readable, users) ==
  [name |-> name, mtime |-> 1, readable |-> readable, users |-> users]

\* transcript a.jsonl written by session a
FileA == File(IdA, TRUE, <<User(IdA, "fix bug", 5)>>)

\* transcript ab.jsonl written by session ab
FileAB == File(IdAB, TRUE, <<User(IdAB, "add test", 4), User(IdAB, "unrelated", 5)>>)

\* transcript ab.jsonl that starts with the records of session a
FileABofA == File(IdAB, TRUE, <<User(IdA, "add test", 4), User(IdAB, "unrelated", 6)>>)

\* a transcript without any user message
FileAEmpty == File(IdA, TRUE, <<>>)

\* a transcript the read stream fails on
FileAUnreadable == File(IdA, FALSE, <<User(IdA, "fix bug", 5)>>)

\* a transcript whose text the embedder throws on
FileACrash == File(IdA, TRUE, <<User(<<>>, "crash", 5)>>)

\* transcript 2.jsonl written by session 2
File2 == File(Id2, TRUE, <<User(Id2, "unrelated", 9)>>)

\* a transcript whose file name is the synthetic ID of a prompt-log group
FileHist ==
  File(SyntheticId(1000, ProjP.v), TRUE,
       <<User(SyntheticId(1000, ProjP.v), "unrelated", 5)>>)

FileLists ==
  {<<>>, <<FileA>>, <<FileAB>>, <<FileABofA>>, <<FileA, FileABofA>>, <<FileAEmpty>>,
   <<FileAUnreadable, FileAB>>, <<FileACrash, FileAB>>, <<FileA, FileHist>>}

IndexEntry(summary, firstPrompt, fileMtime) ==
  [Entry(IdA, "none") EXCEPT
     !.fullPath = [dir |-> DirP, file |-> IdA], !.fileMtime = fileMtime,
     !.projectPath = ProjP, !.summary = summary, !.firstPrompt = firstPrompt,
     !.modified = 7]

NoIndex == [state |-> "none", entries |-> <<>>]

BadIndex == [state |-> "bad", entries |-> <<>>]

IndexOf(entries) == [state |-> "ok", entries |-> entries]

\* a session index that declares session a
DeclaresA == IndexOf(<<IndexEntry(TStr("auth flow"), TStr("fix bug"), 1)>>)

Indexes ==
  {NoIndex, BadIndex, DeclaresA,
   IndexOf(<<IndexEntry(Undef, TNum("42"), 0)>>),
   IndexOf(<<IndexEntry(TObj, TStr("fix bug"), 0)>>)}

Line(display, timestamp, project) ==
  [ok |-> TRUE, display |-> display, timestamp |-> timestamp, project |-> project]

\* a line JSON.parse throws on
BadLine == [ok |-> FALSE, display |-> Undef, timestamp |-> 0, project |-> Undef]

NoHistory == [exists |-> FALSE, readable |-> FALSE, mtime |-> 0, lines |-> <<>>]

History(lines) == [exists |-> TRUE, readable |-> TRUE, mtime |-> 1, lines |-> lines]

\* 29 minutes in milliseconds, one minute less than the gap
TwentyNineMinutes == SESSION_GAP_MS - 60000

\* two prompts of project /p one minute apart
PromptLog ==
  History(<<Line(TStr("fix bug"), 1000, ProjP), Line(TStr("add test"), 61000, ProjP)>>)

Histories ==
  {NoHistory, PromptLog,
   History(<<Line(TStr("unrelated"), 1000, Undef), Line(TStr("fix bug"), 1000, Undef)>>),
   History(<<Line(TNum("42"), 1000, ProjP), BadLine>>),
   History(<<Line(TStr("fix bug"), 1000, TArray)>>),
   History(<<Line(TStr("fix bug"), 1000, Undef),
             Line(TStr("add test"), 1000 + TwentyNineMinutes, Undef)>>),
   History(<<Line(TStr("add test"), 1000 + 2 * TwentyNineMinutes + 120000, ProjQ),
             Line(TStr("fix bug"), 1000, ProjP),
             Line(TStr("unrelated"), 1000 + TwentyNineMinutes, ProjQ)>>)}

FileSystems ==
  {[dirs |-> <<[name |-> DirP, index |-> ix, files |-> fl]>>, history |-> h] :
     ix \in Indexes, fl \in FileLists, h \in {NoHistory, PromptLog}}
  \cup
  {[dirs |-> <<[name |-> DirP, index |-> ix, files |-> fl]>>, history |-> h] :
     ix \in {NoIndex, DeclaresA}, fl \in {<<>>, <<FileA, FileHist>>}, h \in Histories}

\* the line an edit appends to the prompt log
AppendedLine == Line(TStr("unrelated"), 3001000, ProjP)

(***************************************************************************)
(* State                                                                   *)
(***************************************************************************)
VARIABLES
  fs,        \* the session-index files, transcripts and prompt log
  store,     \* the sessions table
  meta,      \* the meta table
  clock,     \* what new Date() reads
  run,       \* the indexSessions call in progress or last finished
  prev,      \* what the run before the current one left behind
  stable,    \* the run before returned and no source changed since it started
  edited,    \* a source changed since the current run started
  count,     \* runs started and source edits made
  search,    \* the outcome of the searchSessions call just made
  lastIds,   \* the IDs the most recent successful search returned
  resolved,  \* the outcome of the resolveSessionId call just made
  embedder,  \* the module variable _embedder and the embed calls in flight
  cosine     \* the cosineSimilarity call just made

vars ==
  <<fs, store, meta, clock, run, prev, stable, edited, count, search, lastIds, resolved,
    embedder, cosine>>

NoRun ==
  [pc |-> "idle", full |-> FALSE, entries |-> <<>>, i |-> 1, total |-> 0,
   indexed |-> 0, skipped |-> 0, errors |-> 0, embeds |-> 0,
   events |-> <<>>, outcomes |-> <<>>]

NoPrev == [valid |-> FALSE, full |-> FALSE, rows |-> {}, indexedIds |-> {}]

NoSearch == [status |-> "none", query |-> "", limit |-> <<>>, results |-> <<>>, shrunk |-> FALSE]

NoResolve == [status |-> "none", token |-> <<>>, result |-> <<>>]

\* embeddings.js line 3: no model loaded, no pipeline call made, no embed call
\* made
NoEmbedder ==
  [instance |-> 0, pipelines |-> 0,
   calls |-> [c \in 1..MaxCalls |-> [pc |-> "idle", uses |-> 0]]]

NoCosine == [status |-> "none", a |-> <<>>, b |-> <<>>, result |-> DoubleZero]

\* what idempotence compares: ID, document text and fingerprint of every row
Rows(table) ==
  {[session_id |-> table[i].session_id, document |-> table[i].document,
    file_mtime |-> table[i].file_mtime] : i \in 1..Len(table)}

EventIds(events, type) ==
  {events[i].sessionId : i \in {j \in 1..Len(events) : events[j].type = type}}

InitWith(fileSystems) ==
  /\ fs \in fileSystems
  /\ store = <<>>
  /\ meta = <<>>
  /\ clock = 0
  /\ run = NoRun
  /\ prev = NoPrev
  /\ stable = FALSE
  /\ edited = FALSE
  /\ count = [runs |-> 0, edits |-> 0]
  /\ search = NoSearch
  /\ lastIds = [written |-> FALSE, ids |-> <<>>]
  /\ resolved = NoResolve
  /\ embedder = NoEmbedder
  /\ cosine = NoCosine

Init == InitWith(FileSystems)

(***************************************************************************)
(* indexSessions                                                           *)
(***************************************************************************)
\* lines 307-314: discovery, the counters and the start event.  An exception
\* of scanAllSessions leaves indexSessions: pc = "threw"
StartIndex(full) ==
  /\ run.pc # "running"
  /\ count.runs < MaxRuns
  /\ LET scan == scanAllSessions(fs)
     IN  run' = IF scan.threw THEN [NoRun EXCEPT !.pc = "threw", !.full = full]
                ELSE [NoRun EXCEPT !.pc = "running", !.full = full,
                        !.entries = scan.entries, !.total = Len(scan.entries),
                        !.events = <<Event("start", <<>>, Len(scan.entries))>>]
  /\ prev' = IF run.pc = "returned"
             THEN [valid |-> TRUE, full |-> run.full, rows |-> Rows(store),
                   indexedIds |-> EventIds(run.events, "indexed")]
             ELSE NoPrev
  /\ stable' = (run.pc = "returned" /\ ~edited)
  /\ edited' = FALSE
  /\ clock' = clock + 1
  /\ count' = [count EXCEPT !.runs = @ + 1]
  /\ search' = NoSearch
  /\ resolved' = NoResolve
  /\ UNCHANGED <<fs, store, meta, lastIds, embedder, cosine>>

IndexStepMutant ==
  /\ run.pc = "running"
  /\ run.i <= Len(run.entries)
  /\ LET out == ProcessEntry(fs, store, run.entries[run.i], run.full, clock)
     IN  /\ store' = out.table
         /\ run' = [run EXCEPT
                      !.i = @ + 1,
                      !.indexed = @ + out.indexed,
                      !.skipped = @ + out.skipped,
                      !.errors = @ + out.errors,
                      !.embeds = @ + (IF out.embedCalled THEN 1 ELSE 0),
                      !.events = IF out.cause = "empty" THEN @
                                 ELSE Append(@, Event(out.type, out.sessionId, run.total)),
                      !.outcomes = Append(@, [type |-> out.type, cause |-> out.cause])]
  /\ search' = NoSearch
  /\ resolved' = NoResolve
  /\ UNCHANGED <<fs, meta, clock, prev, stable, edited, count, lastIds, embedder, cosine>>

\* lines 316-398: one iteration
IndexStep ==
  /\ run.pc = "running"
  /\ run.i <= Len(run.entries)
  /\ LET out == ProcessEntry(fs, store, run.entries[run.i], run.full, clock)
     IN  /\ store' = out.table
         /\ run' = [run EXCEPT
                      !.i = @ + 1,
                      !.indexed = @ + out.indexed,
                      !.skipped = @ + out.skipped,
                      !.errors = @ + out.errors,
                      !.embeds = @ + (IF out.embedCalled THEN 1 ELSE 0),
                      !.events = Append(@, Event(out.type, out.sessionId, run.total)),
                      !.outcomes = Append(@, [type |-> out.type, cause |-> out.cause])]
  /\ search' = NoSearch
  /\ resolved' = NoResolve
  /\ UNCHANGED <<fs, meta, clock, prev, stable, edited, count, lastIds, embedder, cosine>>

\* line 400: return { totalEntries, indexed, skipped, errors }
FinishIndex ==
  /\ run.pc = "running"
  /\ run.i > Len(run.entries)
  /\ run' = [run EXCEPT !.pc = "returned"]
  /\ search' = NoSearch
  /\ resolved' = NoResolve
  /\ UNCHANGED <<fs, store, meta, clock, prev, stable, edited, count, lastIds, embedder, cosine>>

(***************************************************************************)
(* The environment: the assistant writes its files while the tool is used  *)
(***************************************************************************)
Edit(newFs) ==
  /\ count.edits < MaxEdits
  /\ fs' = newFs
  /\ edited' = TRUE
  /\ stable' = FALSE
  /\ count' = [count EXCEPT !.edits = @ + 1]
  /\ search' = NoSearch
  /\ resolved' = NoResolve
  /\ UNCHANGED <<store, meta, clock, run, prev, lastIds, embedder, cosine>>

\* a transcript is written to again
TouchFile ==
  \E d \in 1..Len(fs.dirs) : \E f \in 1..Len(fs.dirs[d].files) :
    Edit([fs EXCEPT !.dirs[d].files[f].mtime = @ + 1])

\* a transcript is removed
DeleteFile ==
  \E d \in 1..Len(fs.dirs) : \E f \in 1..Len(fs.dirs[d].files) :
    Edit([fs EXCEPT !.dirs[d].files =
            SubSeq(@, 1, f - 1) \o SubSeq(@, f + 1, Len(@))])

\* a prompt is appended to the prompt log
AppendHistory ==
  /\ fs.history.exists
  /\ Len(fs.history.lines) < MaxLines
  /\ Edit([fs EXCEPT !.history.lines = Append(@, AppendedLine),
                     !.history.mtime = @ + 1])

(***************************************************************************)
(* searchSessions and resolveSessionId                                     *)
(***************************************************************************)
Queries == {"fix bug", "add test", "crash"}

\* the limit option: <<>> when the caller gives none
Limits == {<<>>, <<0>>, <<1>>, <<0 - 1>>}

Tokens ==
  {<<"1">>, <<"2">>, <<"6">>, <<"2", "0">>, <<"2", "1">>, <<"0">>, <<"0", "1">>,
   <<"+", "1">>, <<"1", ".", "0">>, <<"a">>, <<"A">>, <<"a", "b">>, <<"b">>,
   <<"_">>, <<"h", "i">>}

\* the number of IDs in the stored handle, 0 without one
HandleLen(metaTable) ==
  IF getMeta(metaTable, HandleKey) = <<>> THEN 0
  ELSE Len(JsonParse(getMeta(metaTable, HandleKey)[1]))

IdsOfResults(results) == [i \in 1..Len(results) |-> results[i].session_id]

SearchMutant(query, limit) ==
  /\ run.pc # "running"
  /\ LET emb == embed(<<Part("Query", <<TStr(query)>>)>>)
         lim == IF limit = <<>> THEN DefaultLimit ELSE limit[1]
     IN  \E sessions \in getAllSessions(store) :
           LET scored == IF emb.threw THEN <<>> ELSE Scored(sessions, emb.vec, lim)
           IN  /\ search' = [status |-> "ok", query |-> query, limit |-> limit,
                             results |-> scored,
                             shrunk |-> HandleLen(meta) > Len(scored)]
               /\ meta' = setMeta(meta, HandleKey, JsonStringify(IdsOfResults(scored)))
               /\ lastIds' = [written |-> TRUE, ids |-> IdsOfResults(scored)]
  /\ resolved' = NoResolve
  /\ UNCHANGED <<fs, store, clock, run, prev, stable, edited, count, embedder, cosine>>

\* lines 18-37.  A failing embed leaves the function before anything is read
\* or written.  The commands of the tool run one at a time: no search while
\* an indexing run is in progress
Search(query, limit) ==
  /\ run.pc # "running"
  /\ LET emb == embed(<<Part("Query", <<TStr(query)>>)>>)
         lim == IF limit = <<>> THEN DefaultLimit ELSE limit[1]
     IN  IF emb.threw
         THEN /\ search' = [NoSearch EXCEPT !.status = "threw", !.query = query,
                                            !.limit = limit]
              /\ meta' = meta
              /\ lastIds' = lastIds
         ELSE \E sessions \in getAllSessions(store) :
                LET scored == Scored(sessions, emb.vec, lim)
                IN  /\ search' = [status |-> "ok", query |-> query, limit |-> limit,
                                  results |-> scored,
                                  shrunk |-> HandleLen(meta) > Len(scored)]
                    /\ meta' = setMeta(meta, HandleKey,
                                       JsonStringify(IdsOfResults(scored)))
                    /\ lastIds' = [written |-> TRUE, ids |-> IdsOfResults(scored)]
  /\ resolved' = NoResolve
  /\ UNCHANGED <<fs, store, clock, run, prev, stable, edited, count, embedder, cosine>>

\* lines 39-56
Resolve(token) ==
  /\ run.pc # "running"
  /\ \E r \in resolveSessionId(meta, store, token) :
       resolved' = [status |-> "done", token |-> token, result |-> r]
  /\ search' = NoSearch
  /\ UNCHANGED <<fs, store, meta, clock, run, prev, stable, edited, count, lastIds, embedder, cosine>>

(***************************************************************************)
(* Specifications                                                          *)
(***************************************************************************)
\* the indexer in its environment
Next ==
  \/ \E full \in BOOLEAN : StartIndex(full)
  \/ IndexStep
  \/ FinishIndex
  \/ TouchFile
  \/ DeleteFile
  \/ AppendHistory

Spec == Init /\ [][Next]_vars

\* six prompt-log groups, so that a search finds more rows than the default limit
SixGroups ==
  History(<<Line(TStr("fix bug"), 1000, ProjP), Line(TStr("add test"), 2000, ProjQ),
            Line(TStr("unrelated"), 3000, ProjP), Line(TStr("fix bug"), 4000, ProjQ),
            Line(TStr("add test"), 5000, ProjP), Line(TStr("fix bug"), 6000, ProjQ)>>)

SearchFileSystems ==
  {[dirs |-> <<[name |-> DirP, index |-> NoIndex, files |-> <<FileA, FileAB>>]>>,
    history |-> NoHistory],
   [dirs |-> <<[name |-> DirP, index |-> NoIndex, files |-> <<File2, FileA>>]>>,
    history |-> NoHistory],
   [dirs |-> <<[name |-> DirP, index |-> NoIndex, files |-> <<>>]>>,
    history |-> SixGroups]}

InitSearch == InitWith(SearchFileSystems)

\* indexing, searching and resolving in any order
NextSearch ==
  \/ \E full \in BOOLEAN : StartIndex(full)
  \/ IndexStep
  \/ FinishIndex
  \/ \E query \in Queries, limit \in Limits : Search(query, limit)
  \/ \E token \in Tokens : Resolve(token)

SpecSearch == InitSearch /\ [][NextSearch]_vars

(***************************************************************************)
(* The whole core: runs that may be interrupted, sources that disappear,   *)
(* searches and resolutions                                                *)
(***************************************************************************)
\* the process is killed during a run.  afterWrite: the kill falls between
\* the store write of the entry in flight (line 389) and its report (line
\* 393); otherwise it falls before the write or between two entries.  The
\* write is one INSERT OR REPLACE statement, which SQLite applies whole or
\* not at all
Interrupt(afterWrite) ==
  /\ run.pc = "running"
  /\ IF afterWrite
     THEN /\ run.i <= Len(run.entries)
          /\ store' = ProcessEntry(fs, store, run.entries[run.i], run.full, clock).table
     ELSE store' = store
  /\ run' = [run EXCEPT !.pc = "interrupted"]
  /\ search' = NoSearch
  /\ resolved' = NoResolve
  /\ UNCHANGED <<fs, meta, clock, prev, stable, edited, count, lastIds, embedder, cosine>>

\* the prompt log is removed
DeleteHistory ==
  /\ fs.history.exists
  /\ Edit([fs EXCEPT !.history = NoHistory])

CoreFileSystems ==
  {[dirs |-> <<[name |-> DirP, index |-> NoIndex, files |-> <<FileA, FileABofA>>]>>,
    history |-> NoHistory],
   [dirs |-> <<[name |-> DirP,
                index |-> IndexOf(<<IndexEntry(TStr("auth flow"), TStr("fix bug"), 1)>>),
                files |-> <<FileAB>>]>>,
    history |-> History(<<Line(TStr("fix bug"), 1000, ProjP),
                          Line(TStr("add test"), 61000, ProjP)>>)],
   [dirs |-> <<[name |-> DirP, index |-> NoIndex, files |-> <<FileACrash, FileAB>>]>>,
    history |-> NoHistory]}

InitCore == InitWith(CoreFileSystems)

CoreQueries == {"fix bug", "crash"}

CoreLimits == {<<>>, <<1>>}

CoreTokens == {<<"1">>, <<"a">>}

NextCore ==
  \/ \E full \in BOOLEAN : StartIndex(full)
  \/ IndexStep
  \/ FinishIndex
  \/ \E afterWrite \in BOOLEAN : Interrupt(afterWrite)
  \/ DeleteFile
  \/ DeleteHistory
  \/ \E query \in CoreQueries, limit \in CoreLimits : Search(query, limit)
  \/ \E token \in CoreTokens : Resolve(token)

SpecCore == InitCore /\ [][NextCore]_vars

(***************************************************************************)
(* Properties                                                              *)
(***************************************************************************)
Scanned == run.pc \in {"running", "returned"}

\* an iteration of the loop is being taken
Stepping == run.pc = "running" /\ run.i <= Len(run.entries) /\ run'.i = run.i + 1

CurrentEntry == run.entries[run.i]

LastOf(seq) == seq[Len(seq)]

\* C1: the list discovery returns contains no session ID more than once,
\* whatever the session-index files, transcripts and prompt log hold.
C1_DiscoveryHasNoDuplicateIds ==
  Scanned =>
    \A i, j \in 1..Len(run.entries) :
      i # j => run.entries[i].sessionId # run.entries[j].sessionId

\* C2: in an incremental run, an entry whose session ID has a stored row with
\* a fingerprint identical to the entry's current fingerprint is counted and
\* reported as skip, not as indexed, embed is not called for it and the store
\* is left as it was.
C2_UnchangedIsSkipped ==
  [][(Stepping /\ ~run.full
        /\ \E k \in 1..Len(store) :
             /\ store[k].session_id = CurrentEntry.sessionId
             /\ store[k].file_mtime = FileMtime(fs, CurrentEntry, clock))
     => (/\ store' = store
         /\ run'.skipped = run.skipped + 1
         /\ run'.indexed = run.indexed
         /\ run'.errors = run.errors
         /\ run'.embeds = run.embeds
         /\ LastOf(run'.events) = Event("skip", CurrentEntry.sessionId, run.total))]_vars

\* C2 witness: an incremental run has skipped an entry on its fingerprint
\* while the store held rows
C2_Witness ==
  /\ ~run.full
  /\ store # <<>>
  /\ \E k \in 1..Len(run.outcomes) : run.outcomes[k].cause = "unchanged"

\* C3: when an incremental run follows a completed run and no source changed
\* in between, every session the earlier run reported indexed is reported
\* skip, and none of them is reported indexed, by the later run.
C3_SecondRunSkipsIndexed ==
  (run.pc = "returned" /\ ~run.full /\ stable /\ prev.valid) =>
    \A id \in prev.indexedIds :
      /\ id \in EventIds(run.events, "skip")
      /\ id \notin EventIds(run.events, "indexed")

ListedCauses == {"metadata", "document", "embed", "write"}

\* C4: when metadata extraction, document build, embedding or the store
\* write of an entry raises an exception, the errors counter grows by exactly
\* one, an error event is emitted, nothing is written, and the loop goes on
\* with the next entry of the discovery list.
C4_FailureIsIsolated ==
  [][(Stepping /\ LastOf(run'.outcomes).type = "error"
               /\ LastOf(run'.outcomes).cause \in ListedCauses)
     => (/\ run'.errors = run.errors + 1
         /\ run'.indexed = run.indexed
         /\ run'.skipped = run.skipped
         /\ LastOf(run'.events).type = "error"
         /\ Len(run'.events) = Len(run.events) + 1
         /\ store' = store
         /\ run'.pc = "running"
         /\ run'.entries = run.entries)]_vars

\* C4 witness: a run that returned after an entry failed for each kind of
\* cause in turn, and an entry after a failed one was indexed
C4_Witness ==
  /\ run.pc = "returned"
  /\ \E k \in 1..Len(run.outcomes) :
       /\ run.outcomes[k].type = "error"
       /\ run.outcomes[k].cause \in ListedCauses
       /\ \E l \in (k + 1)..Len(run.outcomes) : run.outcomes[l].type = "indexed"

\* C5: indexSessions completes and returns its tally instead of raising an
\* exception, whatever the sources hold.
C5_IndexSessionsNeverThrows == run.pc # "threw"

\* C6: the session store holds at most one row per session ID.
C6_OneRowPerSessionId ==
  \A i, j \in 1..Len(store) : i # j => store[i].session_id # store[j].session_id

\* C6 witness: the current run has written a row whose ID had a row when the
\* run started
C6_Witness ==
  /\ prev.valid
  /\ \E k \in 1..Len(store) :
       /\ store[k].indexed_at = clock
       /\ \E r \in prev.rows : r.session_id = store[k].session_id

\* C7: after a second full run on unchanged sources the store holds the same
\* session IDs as after the first full run, every row with the same document
\* text and the same fingerprint.
C7_FullRunsAreIdempotent ==
  (run.pc = "returned" /\ run.full /\ stable /\ prev.valid /\ prev.full) =>
    Rows(store) = prev.rows

\* C7 witness: a second full run on unchanged sources has returned after
\* writing rows again
C7_Witness ==
  /\ run.pc = "returned" /\ run.full /\ stable /\ prev.valid /\ prev.full
  /\ run.indexed > 0
  /\ Cardinality(prev.rows) > 1

SearchLimit == IF search.limit = <<>> THEN 5 ELSE search.limit[1]

\* the score of a stored row against the query of the search just made
ScoreOfRow(row) ==
  ExactCosine(embed(<<Part("Query", <<TStr(search.query)>>)>>).vec,
                   bufferToEmbedding(row.embedding.bytes))

ReturnedIds == {search.results[i].session_id : i \in 1..Len(search.results)}

\* the result is a ranking of stored rows that have an embedding, in
\* non-increasing order of score, and no row left out beats a returned one
IsTopRanking ==
  /\ \A i \in 1..Len(search.results) :
       \E k \in 1..Len(store) :
         /\ store[k].session_id = search.results[i].session_id
         /\ ~store[k].embedding.null
         /\ search.results[i].score = ScoreOfRow(store[k])
  /\ \A i, j \in 1..Len(search.results) :
       i < j => ~ScoreLess(search.results[i].score, search.results[j].score)
  /\ \A k \in 1..Len(store) :
       (~store[k].embedding.null /\ store[k].session_id \notin ReturnedIds) =>
         \A i \in 1..Len(search.results) :
           ~ScoreLess(search.results[i].score, ScoreOfRow(store[k]))

\* C8: for every limit value searchSessions returns at most limit entries (5
\* without a limit), only sessions with an embedding, in non-increasing
\* order of score, and no session left out has a strictly greater score than
\* a returned one.
C8_SearchReturnsTopLimit ==
  search.status = "ok" => (Len(search.results) <= SearchLimit /\ IsTopRanking)

\* C9: after a successful search the meta table holds one handle, and it is
\* the list of the session IDs of the returned results in the returned order.
C9_HandleIsLastResult ==
  search.status = "ok" =>
    /\ Cardinality({k \in 1..Len(meta) : meta[k].key = HandleKey}) = 1
    /\ \E k \in 1..Len(meta) :
         /\ meta[k].key = HandleKey
         /\ JsonParse(meta[k].value) = IdsOfResults(search.results)

\* C9 witness: a search has replaced a handle that held more IDs than it
\* returned
C9_Witness == search.status = "ok" /\ search.shrunk

\* C10: for the canonical decimal token of n in 1..20, resolveSessionId
\* returns the n-th ID of the most recent search, and null when no search was
\* recorded or it returned fewer than n IDs, whatever rows the store holds.
C10_OrdinalResolvesIntoHandle ==
  resolved.status = "done" =>
    \A n \in 1..20 :
      resolved.token = NumToString(n) =>
        resolved.result = IF lastIds.written /\ n <= Len(lastIds.ids)
                          THEN <<lastIds.ids[n]>> ELSE <<>>

\* C10 witness: the token 2 has been resolved to the second ID of the handle
C10_Witness ==
  /\ resolved.status = "done"
  /\ resolved.token = <<"2">>
  /\ Len(lastIds.ids) >= 2
  /\ resolved.result = <<lastIds.ids[2]>>

\* the token 2 resolves to null although a row has the ID 2
OrdinalDoesNotFallBack ==
  /\ resolved.status = "done"
  /\ resolved.token = <<"2">>
  /\ resolved.result = <<>>
  /\ \E k \in 1..Len(store) : IsPrefix(resolved.token, store[k].session_id)

\* the part of C8 that holds: with a limit that is not negative
TopLimitForNonNegativeLimit ==
  (search.status = "ok" /\ SearchLimit >= 0) =>
    (Len(search.results) <= SearchLimit /\ IsTopRanking)

\* the token is the canonical decimal string of an integer in 1..20
IsOrdinalToken(token) == \E n \in 1..20 : token = NumToString(n)

\* C11: for a token that is not an ordinal, resolveSessionId returns the ID
\* of a stored row that starts with the token character for character, and
\* returns null exactly when no stored row's ID starts with the token.
C11_PrefixLookupIsLiteral ==
  (resolved.status = "done" /\ ~IsOrdinalToken(resolved.token)) =>
    LET matching == {k \in 1..Len(store) : IsPrefix(resolved.token, store[k].session_id)}
    IN  IF resolved.result = <<>> THEN matching = {}
        ELSE \E k \in matching : store[k].session_id = resolved.result[1]

\* the part of C11 that holds: a token of lower-case letters and digits
\* without the wildcards of LIKE
LiteralLookupWithoutWildcards ==
  (resolved.status = "done" /\ ~IsOrdinalToken(resolved.token)
     /\ \A i \in 1..Len(resolved.token) : resolved.token[i] \notin {"A", "B", "_", "%"}) =>
    LET matching == {k \in 1..Len(store) : IsPrefix(resolved.token, store[k].session_id)}
    IN  IF resolved.result = <<>> THEN matching = {}
        ELSE \E k \in matching : store[k].session_id = resolved.result[1]

\* indexSessions has just called scanAllSessions and got its list
JustScanned == run.pc # "running" /\ run'.pc = "running"

\* the IDs the session-index files declare
DeclaredIds(dirs) ==
  UNION {{dirs[d].index.entries[k].sessionId : k \in 1..Len(dirs[d].index.entries)} :
           d \in {c \in 1..Len(dirs) : dirs[c].index.state = "ok"}}

\* the names, without extension, of the transcript files
TranscriptIds(dirs) ==
  UNION {{dirs[d].files[f].name : f \in 1..Len(dirs[d].files)} : d \in 1..Len(dirs)}

\* the positions of the entries of one ID
EntriesOf(entries, id) == {k \in 1..Len(entries) : entries[k].sessionId = id}

\* the IDs of the entries of provenance index or orphan
ClaimedIds(entries) ==
  {entries[k].sessionId : k \in {j \in 1..Len(entries) : entries[j].source # "history"}}

ProvenancePriority(files, entries) ==
  /\ \A id \in TranscriptIds(files.dirs) \cap DeclaredIds(files.dirs) :
       /\ Cardinality(EntriesOf(entries, id)) = 1
       /\ \A k \in EntriesOf(entries, id) : entries[k].source = "index"
  /\ \A k \in 1..Len(entries) :
       entries[k].source = "history" => entries[k].sessionId \notin ClaimedIds(entries)

\* C12: in the list discovery returns, a transcript file whose derived ID is
\* declared by a session-index file has exactly one entry, of provenance
\* index and never orphan, and a history group whose synthetic ID is claimed
\* by an index or orphan entry has no history entry.
C12_ProvenancePriority ==
  [][JustScanned => ProvenancePriority(fs, run'.entries)]_vars

\* C12 witness: discovery has returned a list for sources in which a
\* transcript is declared by the session index and a prompt-log group has the
\* ID of another transcript
C12_Witness ==
  /\ run.pc = "running" /\ run.i = 1 /\ ~edited
  /\ TranscriptIds(fs.dirs) \cap DeclaredIds(fs.dirs) # {}
  /\ fs.history.exists
  /\ \E g \in 1..Len(GroupHistory(fs.history.lines)) :
       /\ ~SimpleHashThrows(GroupHistory(fs.history.lines)[g].project)
       /\ HistoryEntry(GroupHistory(fs.history.lines)[g]).sessionId \in ClaimedIds(run.entries)

\* the valid records of the prompt log in timestamp order, and their groups
SortedRecords(history) ==
  IF history.exists /\ history.readable
  THEN SortByTimestamp(ParseHistory(history.lines)) ELSE <<>>

GroupsOf(history) ==
  IF history.exists /\ history.readable THEN GroupHistory(history.lines) ELSE <<>>

RECURSIVE PromptsUpTo(_, _)
\* the number of records in the first g groups
PromptsUpTo(groups, g) ==
  IF g = 0 THEN 0 ELSE Len(groups[g].prompts) + PromptsUpTo(groups, g - 1)

\* the group the k-th record in timestamp order is in
GroupOfRecord(history, k) ==
  CHOOSE g \in 1..Len(GroupsOf(history)) :
    PromptsUpTo(GroupsOf(history), g - 1) < k /\ k <= PromptsUpTo(GroupsOf(history), g)

\* the positions, in timestamp order, of the records of group g
RecordsOfGroup(history, g) ==
  (PromptsUpTo(GroupsOf(history), g - 1) + 1)..PromptsUpTo(GroupsOf(history), g)

MergesWithinGap(history) ==
  LET recs == SortedRecords(history)
  IN  \A i, j \in 1..Len(recs) :
        (recs[i].project = recs[j].project
           /\ recs[j].timestamp - recs[i].timestamp = TwentyNineMinutes)
        => GroupOfRecord(history, i) = GroupOfRecord(history, j)

ThreeRecordsTwoGroups(history) ==
  LET recs == SortedRecords(history)
  IN  (Len(recs) = 3 /\ recs[1].timestamp = 1000 /\ recs[2].timestamp = 61000
         /\ recs[3].timestamp = 3001000
         /\ recs[1].project = recs[2].project /\ recs[2].project = recs[3].project)
      => /\ Len(GroupsOf(history)) = 2
         /\ GroupsOf(history)[1].prompts = <<recs[1].display, recs[2].display>>
         /\ GroupsOf(history)[2].prompts = <<recs[3].display>>

\* C13: in every discovery, two valid prompt-log records of the same project
\* whose timestamps are 29 minutes apart are in the same history group, and
\* three records of one project at 1000, 61000 and 3001000 ms give exactly
\* the two groups [first, second] and [third].
C13_GroupingMergesWithinGap ==
  [][JustScanned => (MergesWithinGap(fs.history) /\ ThreeRecordsTwoGroups(fs.history))]_vars

\* the part of C13 that holds: the three records at 1000, 61000 and 3001000
ThreeRecordsGiveTwoGroups ==
  [][JustScanned => ThreeRecordsTwoGroups(fs.history)]_vars

\* discovery has grouped the three records at 1000, 61000 and 3001000
ThreeRecordsGrouped ==
  /\ run.pc = "running" /\ ~edited
  /\ Len(SortedRecords(fs.history)) = 3
  /\ SortedRecords(fs.history)[3].timestamp = 3001000
  /\ Len(GroupsOf(fs.history)) = 2

ThirtyOneMinutes == SESSION_GAP_MS + 60000

GroupsAreUniform(history) ==
  LET recs == SortedRecords(history)
  IN  \A g \in 1..Len(GroupsOf(history)) :
        \A i, j \in RecordsOfGroup(history, g) :
          /\ recs[i].project = recs[j].project
          /\ j = i + 1 => recs[j].timestamp - recs[i].timestamp < SESSION_GAP_MS

\* the records at positions k and k + 1 in timestamp order split on the gap
SplitsOnGap(history, k) ==
  LET recs == SortedRecords(history)
  IN  /\ recs[k].project = recs[k + 1].project
      /\ recs[k + 1].timestamp - recs[k].timestamp = ThirtyOneMinutes
      /\ GroupOfRecord(history, k) # GroupOfRecord(history, k + 1)

\* the records at positions k and k + 1 split on the change of project
SplitsOnProject(history, k) ==
  LET recs == SortedRecords(history)
  IN  /\ recs[k].project # recs[k + 1].project
      /\ recs[k + 1].timestamp - recs[k].timestamp = TwentyNineMinutes
      /\ GroupOfRecord(history, k) # GroupOfRecord(history, k + 1)

\* C14: in every history group discovery forms, all records have the same
\* project and each record is less than 30 minutes after the record before
\* it in the group; so two same-project records 31 minutes apart with nothing
\* between them, and a record followed by one of another project, are in
\* different groups.
C14_GroupingSplits ==
  [][JustScanned =>
       LET recs == SortedRecords(fs.history)
       IN  /\ GroupsAreUniform(fs.history)
           /\ \A k \in 1..(Len(recs) - 1) :
                (recs[k].project # recs[k + 1].project
                   \/ recs[k + 1].timestamp - recs[k].timestamp >= SESSION_GAP_MS)
                => GroupOfRecord(fs.history, k) # GroupOfRecord(fs.history, k + 1)]_vars

\* C14 witness: discovery has grouped a prompt log in which a record of
\* project /q follows one of /p by 29 minutes and another of /q follows 31
\* minutes later, into three groups
C14_Witness ==
  /\ run.pc = "running" /\ run.i = 1 /\ ~edited
  /\ \E k \in 1..(Len(SortedRecords(fs.history)) - 1) : SplitsOnGap(fs.history, k)
  /\ \E k \in 1..(Len(SortedRecords(fs.history)) - 1) : SplitsOnProject(fs.history, k)
  /\ Cardinality({k \in 1..Len(run.entries) : run.entries[k].source = "history"}) = 3

\* an orphan entry whose transcript is gone or holds no user message
NoFirstPrompt(files, entry) ==
  /\ entry.source = "orphan"
  /\ \/ ~existsSync(files, entry.fullPath)
     \/ /\ FilesAt(files.dirs, entry.fullPath)[1].readable
        /\ FilesAt(files.dirs, entry.fullPath)[1].users = <<>>

\* the iteration embedded a document and wrote its row
EmbeddedAndWritten ==
  /\ run'.embeds = run.embeds + 1
  /\ run'.indexed = run.indexed + 1
  /\ \E k \in 1..Len(store') :
       /\ store'[k].indexed_at = clock
       /\ store'[k].file_mtime = FileMtime(fs, CurrentEntry, clock)

\* C15 as stated: in a full run every candidate entry is embedded and written
\* again or counted as error, and none is skipped.
C15_FullRunReprocessesAll ==
  [][(Stepping /\ run.full) =>
       /\ run'.skipped = run.skipped
       /\ EmbeddedAndWritten \/ run'.errors = run.errors + 1]_vars

\* C15 amended: in a full run no candidate entry is skipped because of a
\* matching stored fingerprint: every entry is embedded and written again or
\* counted as error, except an orphan entry without a first prompt, which is
\* skipped as an empty session.
C15_FullRunBypassesChangeDetection ==
  [][(Stepping /\ run.full) =>
       \/ /\ run'.skipped = run.skipped
          /\ EmbeddedAndWritten \/ run'.errors = run.errors + 1
       \/ /\ NoFirstPrompt(fs, CurrentEntry)
          /\ run'.skipped = run.skipped + 1
          /\ run'.indexed = run.indexed /\ run'.errors = run.errors]_vars

\* C15 witness: a full run on unchanged sources has embedded and written
\* again an entry whose row held the entry's current fingerprint
C15_Witness ==
  /\ run.pc = "running" /\ run.full /\ stable /\ ~edited /\ prev.valid
  /\ \E k \in 1..Len(run.outcomes) :
       /\ run.outcomes[k].type = "indexed"
       /\ \E r \in prev.rows :
            /\ r.session_id = run.entries[k].sessionId
            /\ r.file_mtime = FileMtime(fs, run.entries[k], clock)
       /\ \E j \in 1..Len(store) :
            /\ store[j].session_id = run.entries[k].sessionId
            /\ store[j].indexed_at = clock

\* C16: an orphan entry whose transcript yields no first user prompt is
\* counted and reported as skip, not as error, embed is not called for it and
\* the store is left as it was, in incremental and in full mode.
C16_EmptySessionIsSkipped ==
  [][(Stepping /\ NoFirstPrompt(fs, CurrentEntry)) =>
       /\ run'.skipped = run.skipped + 1
       /\ run'.errors = run.errors
       /\ run'.indexed = run.indexed
       /\ run'.embeds = run.embeds
       /\ store' = store
       /\ LastOf(run'.events).type = "skip"]_vars

\* C16 witness: a full run and an incremental run have both skipped an orphan
\* entry as an empty session
C16_Witness ==
  /\ run.pc = "returned" /\ prev.valid /\ prev.full /\ ~run.full
  /\ prev.rows = {}
  /\ \E k \in 1..Len(run.outcomes) :
       /\ run.outcomes[k].cause = "empty"
       /\ run.entries[k].source = "orphan"
  /\ stable

\* embed throws on the query of the search just made
QueryEmbedFails(query) == embed(<<Part("Query", <<TStr(query)>>)>>).threw

\* C17: when embed fails on the query, searchSessions fails with that error,
\* returns no result list and leaves the last-search-results handle and the
\* session rows unchanged.
C17_EmbedFailurePropagates ==
  [][(search'.status # "none" /\ QueryEmbedFails(search'.query)) =>
       /\ search'.status = "threw"
       /\ search'.results = <<>>
       /\ meta' = meta
       /\ store' = store]_vars

\* C17 witness: a search has failed on its query while the store held rows
\* and the handle held the IDs of an earlier search
C17_Witness ==
  /\ search.status = "threw"
  /\ store # <<>>
  /\ lastIds.written /\ lastIds.ids # <<>>
  /\ getMeta(meta, HandleKey) = <<JsonStringify(lastIds.ids)>>

\* the run is being interrupted
Interrupting == run.pc = "running" /\ run'.pc = "interrupted"

\* a row with all it needs to be found: its document and the embedding of it
CompleteRow(row) ==
  /\ row.document # <<>>
  /\ ~row.embedding.null
  /\ ~embed(row.document).threw
  /\ row.embedding.bytes = embeddingToBuffer(embed(row.document).vec)

StoredIds(table) == {table[k].session_id : k \in 1..Len(table)}

\* C18: when an indexing run is interrupted, the store holds a complete row
\* for every entry the run has reported indexed, every row of the store is
\* complete, and nothing but the row of the entry in flight differs from the
\* store the reported entries left.
C18_InterruptionKeepsProgress ==
  [][Interrupting =>
       /\ EventIds(run'.events, "indexed") \subseteq StoredIds(store')
       /\ \A k \in 1..Len(store') : CompleteRow(store'[k])
       /\ run'.events = run.events
       /\ Len(run'.events) = run'.i
       /\ \E inFlight \in StoredIds(store') \cup {<<>>} :
            /\ \A k \in 1..Len(store) :
                 store[k].session_id # inFlight =>
                   \E j \in 1..Len(store') : store'[j] = store[k]
            /\ \A j \in 1..Len(store') :
                 store'[j].session_id # inFlight =>
                   \E k \in 1..Len(store) : store[k] = store'[j]]_vars

\* C18 witness: a run was interrupted after it had reported an entry indexed
\* and while another entry was in flight
C18_Witness ==
  /\ run.pc = "interrupted"
  /\ EventIds(run.events, "indexed") # {}
  /\ run.i <= Len(run.entries)

\* C19: no step of indexSessions, searchSessions or resolveSessionId removes
\* a session ID from the store, also when the source of a stored session has
\* disappeared.
C19_RowsAreNeverDeleted ==
  [][StoredIds(store) \subseteq StoredIds(store')]_vars

\* C19 witness: a run that started after the source of a stored session had
\* disappeared has returned, and a search has been made since
C19_Witness ==
  /\ run.pc = "returned" /\ ~edited /\ count.edits > 0
  /\ StoredIds(store) \ IdsOf(run.entries) # {}
  /\ search.status = "ok"

\* the event the run emitted for the k-th entry of the discovery list
EventOfEntry(k) == run.events[k + 1]

\* C20: a run emits exactly one start event, first, with total = the number
\* of candidate entries; after it every candidate entry in turn produces
\* exactly one event, of type indexed, skip or error, in discovery order.
C20_EventProtocol ==
  Scanned =>
    /\ run.events # <<>>
    /\ run.events[1] = Event("start", <<>>, Len(run.entries))
    /\ Len(run.events) = run.i
    /\ run.pc = "returned" => Len(run.events) = Len(run.entries) + 1
    /\ \A k \in 1..(Len(run.events) - 1) :
         /\ EventOfEntry(k).type \in {"indexed", "skip", "error"}
         /\ EventOfEntry(k).type = run.outcomes[k].type
         /\ \/ EventOfEntry(k).sessionId = run.entries[k].sessionId
            \/ run.entries[k].source = "orphan" /\ EventOfEntry(k).type = "indexed"

\* C20 witness: a run has returned after events of all three types, the
\* entries having different IDs
C20_Witness ==
  /\ run.pc = "returned"
  /\ Len(run.entries) >= 2
  /\ {run.events[k].type : k \in 1..Len(run.events)} = {"start", "indexed", "skip", "error"}

\* two scores are equal
SameScore(x, y) == ~ScoreLess(x, y) /\ ~ScoreLess(y, x)

\* C21: when two returned sessions have equal scores, the one with the later
\* modified value comes first in the result list and in the handle.
C21_TiesFollowStoreOrder ==
  search.status = "ok" =>
    \A i, j \in 1..Len(search.results) :
      (i < j /\ SameScore(search.results[i].score, search.results[j].score)) =>
        /\ search.results[i].modified >= search.results[j].modified
        /\ JsonParse(getMeta(meta, HandleKey)[1])[i] = search.results[i].session_id
        /\ JsonParse(getMeta(meta, HandleKey)[1])[j] = search.results[j].session_id

\* C21 witness: a search has returned two sessions of equal score, the one
\* modified later first, although its row was written later
C21_Witness ==
  /\ search.status = "ok"
  /\ \E i, j \in 1..Len(search.results) :
       /\ i < j
       /\ SameScore(search.results[i].score, search.results[j].score)
       /\ search.results[i].modified > search.results[j].modified
       /\ \E k, l \in 1..Len(store) :
            /\ store[k].session_id = search.results[i].session_id
            /\ store[l].session_id = search.results[j].session_id
            /\ l < k

\* the fingerprint the row of a session ID holds: <<file_mtime>>, or <<>>
StoredFingerprint(table, id) ==
  LET at == {k \in 1..Len(table) : table[k].session_id = id}
  IN  IF at = {} THEN <<>> ELSE <<table[CHOOSE k \in at : TRUE].file_mtime>>

\* C23: for every session ID, across any sequence of indexing runs, the
\* file_mtime written to its row is never lower than the value the row held
\* before.
C23_FingerprintNeverDecreases ==
  [][\A id \in StoredIds(store) :
       StoredFingerprint(store', id) # <<>>
         => StoredFingerprint(store', id)[1] >= StoredFingerprint(store, id)[1]]_vars

\* the part of C23 that holds: while no source is removed or replaced, the
\* fingerprint written for an entry whose row carries the entry's own ID
FingerprintNeverDecreasesWithoutEdits ==
  [][(count.edits = 0 /\ Stepping /\ LastOf(run'.outcomes).type = "indexed"
        /\ LastOf(run'.events).sessionId = CurrentEntry.sessionId
        /\ StoredFingerprint(store, CurrentEntry.sessionId) # <<>>)
     => StoredFingerprint(store', CurrentEntry.sessionId)[1]
          >= StoredFingerprint(store, CurrentEntry.sessionId)[1]]_vars

\* a run after the removal of a transcript has lowered the fingerprint of the
\* row of a session the session index declares to 0
FingerprintResetAfterRemoval ==
  /\ run.pc = "returned" /\ prev.valid /\ count.edits > 0
  /\ \E k \in 1..Len(store) :
       /\ store[k].file_mtime = 0
       /\ \E r \in prev.rows : r.session_id = store[k].session_id /\ r.file_mtime > 0
       /\ \E e \in 1..Len(run.entries) :
            run.entries[e].sessionId = store[k].session_id /\ run.entries[e].source = "index"

\* the number of events of one type a run has emitted
EventCount(type) == Cardinality({k \in 1..Len(run.events) : run.events[k].type = type})

\* C25: when indexSessions returns, indexed + skipped + errors equals
\* totalEntries, the number of candidate entries discovered, and each counter
\* equals the number of events of its type emitted during the run.
C25_TallyIsConserved ==
  run.pc = "returned" =>
    /\ run.indexed + run.skipped + run.errors = run.total
    /\ run.total = Len(run.entries)
    /\ run.indexed = EventCount("indexed")
    /\ run.skipped = EventCount("skip")
    /\ run.errors = EventCount("error")

\* the part of C25 that holds: the skip and error counters and the total
TallyOfSkipsAndErrors ==
  run.pc = "returned" =>
    /\ run.total = Len(run.entries)
    /\ run.skipped = EventCount("skip")
    /\ run.errors = EventCount("error")
    /\ EventCount("indexed") + run.skipped + run.errors = run.total

\* C26: every row an iteration writes has the session ID of the candidate
\* entry being processed, so no iteration changes the row of another session
\* ID, and after an entry was indexed a lookup under its ID finds the row.
C26_RowCarriesEntryId ==
  [][Stepping =>
       /\ \A id \in StoredIds(store') :
            id # CurrentEntry.sessionId =>
              \E k \in 1..Len(store), j \in 1..Len(store') :
                store[k].session_id = id /\ store'[j] = store[k]
       /\ LastOf(run'.outcomes).type = "indexed"
            => getSessionMtime(store', CurrentEntry.sessionId) # <<>>]_vars

\* the part of C26 that holds: for entries of the session index and of the
\* prompt log
RowCarriesEntryIdUnlessOrphan ==
  [][(Stepping /\ CurrentEntry.source # "orphan") =>
       /\ \A id \in StoredIds(store') :
            id # CurrentEntry.sessionId =>
              \E k \in 1..Len(store), j \in 1..Len(store') :
                store[k].session_id = id /\ store'[j] = store[k]
       /\ LastOf(run'.outcomes).type = "indexed"
            => getSessionMtime(store', CurrentEntry.sessionId) # <<>>]_vars

(***************************************************************************)
(* embeddings.js: getEmbedder and embed, one step per await.  Each call of *)
(* embed runs to its first await without interruption; where a promise     *)
(* settles, the continuation of any waiting call may run next.             *)
(***************************************************************************)
SetCall(c, pc, uses) ==
  [embedder.calls EXCEPT ![c] = [pc |-> pc, uses |-> uses]]

\* lines 13-14 and 5-7: embed(text) calls getEmbedder.  With _embedder set
\* the call gets that instance and goes on to line 15; with _embedder null
\* it calls pipeline and waits for the load
CallEmbed(c) ==
  /\ embedder.calls[c].pc = "idle"
  /\ embedder' =
       IF embedder.instance # 0
       THEN [embedder EXCEPT !.calls = SetCall(c, "inferring", embedder.instance)]
       ELSE [embedder EXCEPT !.pipelines = embedder.pipelines + 1,
                             !.calls = SetCall(c, "loading", embedder.pipelines + 1)]
  /\ UNCHANGED <<fs, store, meta, clock, run, prev, stable, edited, count, search,
                 lastIds, resolved, cosine>>

\* lines 7 and 10: the load this call awaits resolves; the call assigns the
\* instance to _embedder and returns it
LoadResolves(c) ==
  /\ embedder.calls[c].pc = "loading"
  /\ embedder' = [embedder EXCEPT !.instance = embedder.calls[c].uses,
                                  !.calls = SetCall(c, "inferring", embedder.calls[c].uses)]
  /\ UNCHANGED <<fs, store, meta, clock, run, prev, stable, edited, count, search,
                 lastIds, resolved, cosine>>

\* line 7: the load rejects; the assignment does not happen and embed rejects
LoadRejects(c) ==
  /\ embedder.calls[c].pc = "loading"
  /\ embedder' = [embedder EXCEPT !.calls = SetCall(c, "rejected", 0)]
  /\ UNCHANGED <<fs, store, meta, clock, run, prev, stable, edited, count, search,
                 lastIds, resolved, cosine>>

\* lines 15-17: the instance yields the tensor and embed returns the vector
EmbedReturns(c) ==
  /\ embedder.calls[c].pc = "inferring"
  /\ embedder' = [embedder EXCEPT !.calls = SetCall(c, "returned", embedder.calls[c].uses)]
  /\ UNCHANGED <<fs, store, meta, clock, run, prev, stable, edited, count, search,
                 lastIds, resolved, cosine>>

NoFileSystem == [dirs |-> <<>>, history |-> NoHistory]

InitEmbedder == InitWith({NoFileSystem})

NextEmbedder ==
  \E c \in 1..MaxCalls :
    \/ CallEmbed(c)
    \/ LoadResolves(c)
    \/ LoadRejects(c)
    \/ EmbedReturns(c)

SpecEmbedder == InitEmbedder /\ [][NextEmbedder]_vars

(***************************************************************************)
(* C24: the embedding model is loaded at most once in a process            *)
(***************************************************************************)
HoldsInstance(c) == embedder.calls[c].pc \in {"inferring", "returned"}

\* C24: over any interleaving of embed calls in one process, overlapping
\* ones included, pipeline is invoked at most once and all calls that got an
\* instance got the same one
C24_ModelLoadedAtMostOnce ==
  /\ embedder.pipelines <= 1
  /\ \A c, d \in 1..MaxCalls :
       (HoldsInstance(c) /\ HoldsInstance(d)) =>
         embedder.calls[c].uses = embedder.calls[d].uses

\* two calls wait for two loads at the same time
TwoLoadsInFlight ==
  \E c, d \in 1..MaxCalls :
    /\ c # d
    /\ embedder.calls[c].pc = "loading"
    /\ embedder.calls[d].pc = "loading"
    /\ embedder.calls[c].uses # embedder.calls[d].uses

\* a call made when a load has resolved invokes no pipeline and uses the
\* instance _embedder holds
LoadedInstanceIsReused ==
  [][\A c \in 1..MaxCalls :
       (embedder.instance # 0 /\ CallEmbed(c)) =>
         /\ embedder'.pipelines = embedder.pipelines
         /\ embedder'.calls[c].uses = embedder.instance]_vars

\* a call is made after a load has resolved
CallAfterLoad ==
  \E c \in 1..MaxCalls :
    /\ HoldsInstance(c)
    /\ embedder.instance # 0
    /\ embedder.calls[c].uses = embedder.instance
    /\ embedder.pipelines = 1
    /\ \E d \in 1..MaxCalls : d # c /\ embedder.calls[d].pc = "returned"

(***************************************************************************)
(* cosineSimilarity as a function of its two arguments: the arguments are  *)
(* drawn from the vectors of at most MaxDim components, and the call       *)
(* returns the double the code computes.                                   *)
(***************************************************************************)
Components == {0 - 1, 0, 1}

RECURSIVE VectorsOf(_)
VectorsOf(n) ==
  IF n = 0 THEN {<<>>}
  ELSE {<<c>> \o v : c \in Components, v \in VectorsOf(n - 1)}

Vectors == UNION {VectorsOf(n) : n \in 0..MaxDim}

InitCosine ==
  /\ fs = NoFileSystem
  /\ store = <<>>
  /\ meta = <<>>
  /\ clock = 0
  /\ run = NoRun
  /\ prev = NoPrev
  /\ stable = FALSE
  /\ edited = FALSE
  /\ count = [runs |-> 0, edits |-> 0]
  /\ search = NoSearch
  /\ lastIds = [written |-> FALSE, ids |-> <<>>]
  /\ resolved = NoResolve
  /\ embedder = NoEmbedder
  /\ cosine \in {[status |-> "called", a |-> a, b |-> b, result |-> DoubleZero] :
                   a \in Vectors, b \in Vectors}

\* lines 4-16: the call returns
CosineReturns ==
  /\ cosine.status = "called"
  /\ cosine' = [cosine EXCEPT !.status = "returned",
                              !.result = cosineSimilarity(cosine.a, cosine.b)]
  /\ UNCHANGED <<fs, store, meta, clock, run, prev, stable, edited, count, search,
                 lastIds, resolved, embedder>>

NextCosine == CosineReturns

SpecCosine == InitCosine /\ [][NextCosine]_vars

(***************************************************************************)
(* C22: the score at zero magnitude and the score of a vector with itself  *)
(***************************************************************************)
\* the squared magnitude of v over its first len components
NormOver(v, len) == SumTo([i \in 1..len |-> v[i] * v[i]], len)

ZeroMagnitude(a, b) ==
  LET len == Min(Len(a), Len(b))
  IN  NormOver(a, len) = 0 \/ NormOver(b, len) = 0

NonZero(v) == \E i \in 1..Len(v) : v[i] # 0

\* C22: cosineSimilarity returns 0 when either argument has zero magnitude
\* over the compared components (an empty vector included), and returns 1
\* for cosineSimilarity(v, v) with v non-zero
C22_ZeroAtZeroMagnitudeOneOnSelf ==
  cosine.status = "returned" =>
    /\ ZeroMagnitude(cosine.a, cosine.b) => cosine.result = DoubleZero
    /\ (cosine.a = cosine.b /\ NonZero(cosine.a)) => cosine.result = DoubleOne

\* the first half alone: 0 at zero magnitude
ZeroAtZeroMagnitude ==
  (cosine.status = "returned" /\ ZeroMagnitude(cosine.a, cosine.b)) =>
    cosine.result = DoubleZero

\* d is 1 - 2^-52, 1 or 1 + 2^-52: the doubles 0.9999999999999998, 1 and
\* 1.0000000000000002
NearOne(d) ==
  \/ d = DoubleOne
  \/ /\ d.sign = 1
     /\ d.e = 0 - MantissaBits
     /\ BigAdd(d.m, <<2>>) = BigPow2(MantissaBits)
  \/ /\ d.sign = 1
     /\ d.e = 1 - MantissaBits
     /\ d.m = BigAdd(BigPow2(MantissaBits - 1), <<1>>)

\* the score of a non-zero vector with itself is within 2^-52 of 1
SelfSimilarityNearOne ==
  (cosine.status = "returned" /\ cosine.a = cosine.b /\ NonZero(cosine.a)) =>
    NearOne(cosine.result)

\* cosineSimilarity([1, 1], [1, 1]) has returned a double below 1
SelfSimilarityBelowOne ==
  /\ cosine.status = "returned"
  /\ cosine.a = <<1, 1>>
  /\ cosine.b = <<1, 1>>
  /\ DoubleLess(cosine.result, DoubleOne)

\* cosineSimilarity([1, 0], [0, 0]) and cosineSimilarity([], [1]) return 0
ZeroVectorScoresZero ==
  /\ cosine.status = "returned"
  /\ cosine.result = DoubleZero
  /\ NonZero(cosine.a)
  /\ Len(cosine.b) = 2
  /\ ~NonZero(cosine.b)

\* the vectors embed yields
Embeddings == {<<1, 0>>, <<0, 1>>, <<1, 1>>}

\* for one query vector, the doubles returned for two stored vectors compare
\* as the exact scores do
DoublesRankAsExact ==
  (cosine.status = "returned" /\ cosine.a \in Embeddings /\ cosine.b \in Embeddings) =>
    \A y \in Embeddings :
      LET other == cosineSimilarity(cosine.a, y)
      IN  /\ ScoreLess(ExactCosine(cosine.a, cosine.b), ExactCosine(cosine.a, y))
               <=> DoubleLess(cosine.result, other)
          /\ ScoreLess(ExactCosine(cosine.a, y), ExactCosine(cosine.a, cosine.b))
               <=> DoubleLess(other, cosine.result)
=============================================================================
